---- MODULE Spec2Model ----
(***************************************************************************)
(* arrow2 FFI schema codec (src/src/ffi/schema.rs): the Field <-> exported *)
(* ArrowSchema node tree mapping, the format-string grammar, the metadata  *)
(* byte encoding and the release protocol of exported schema nodes.        *)
(*                                                                         *)
(* Strings are sequences of one-character strings, so that split, parse    *)
(* and format are computed character by character as the code does.        *)
(***************************************************************************)
EXTENDS Integers, Sequences, FiniteSets, TLC

\* ------------------------------------------------------------------------
\* Option and Result values
\* ------------------------------------------------------------------------
None == <<>>
Some(v) == <<v>>
IsSome(o) == Len(o) = 1
Unwrap(o) == o[1]

Ok(v) == [kind |-> "Ok", val |-> v]
OutOfSpec == [kind |-> "Err", err |-> "OutOfSpec"]
Panic == [kind |-> "Panic"]
IsOk(r) == r.kind = "Ok"

\* ------------------------------------------------------------------------
\* Characters, integer parsing and formatting
\* ------------------------------------------------------------------------
DigitChars == <<"0", "1", "2", "3", "4", "5", "6", "7", "8", "9">>
IsDigit(c) == \E i \in 1..10 : DigitChars[i] = c
DigitVal(c) == (CHOOSE i \in 1..10 : DigitChars[i] = c) - 1

\* The printable ASCII characters in code order, from 32 (space) to 126 (~);
\* "GRAVE" stands for the grave accent (code 96).
AsciiPrintable ==
    <<" ", "!", "\"", "#", "$", "%", "&", "'", "(", ")", "*", "+", ",", "-", ".", "/",
      "0", "1", "2", "3", "4", "5", "6", "7", "8", "9", ":", ";", "<", "=", ">", "?",
      "@", "A", "B", "C", "D", "E", "F", "G", "H", "I", "J", "K", "L", "M", "N", "O",
      "P", "Q", "R", "S", "T", "U", "V", "W", "X", "Y", "Z", "[", "\\", "]", "^", "_",
      "GRAVE", "a", "b", "c", "d", "e", "f", "g", "h", "i", "j", "k", "l", "m", "n", "o",
      "p", "q", "r", "s", "t", "u", "v", "w", "x", "y", "z", "{", "|", "}", "~">>
\* The NUL character, which terminates a C string.
Nul == "NUL"

\* str::as_bytes on one (ASCII) character, and its inverse.
CharCode(c) ==
    IF c = Nul THEN 0
    ELSE 31 + (CHOOSE i \in 1..Len(AsciiPrintable) : AsciiPrintable[i] = c)
CodeChar(b) == IF b = 0 THEN Nul ELSE AsciiPrintable[b - 31]

as_bytes(s) == [i \in 1..Len(s) |-> CharCode(s[i])]

\* The value of a non-empty run of decimal digits.
RECURSIVE DigitsValue(_)
DigitsValue(s) ==
    IF Len(s) = 0 THEN 0
    ELSE 10 * DigitsValue(SubSeq(s, 1, Len(s) - 1)) + DigitVal(s[Len(s)])

AllDigits(s) == Len(s) > 0 /\ \A i \in 1..Len(s) : IsDigit(s[i])

\* str::parse::<usize>: an optional "+" and at least one digit.
parse_usize(s) ==
    LET body == IF Len(s) > 0 /\ s[1] = "+" THEN Tail(s) ELSE s
    IN  IF AllDigits(body) THEN Ok(DigitsValue(body)) ELSE OutOfSpec

\* str::parse::<i32>: an optional "+" or "-" and at least one digit.
parse_i32(s) ==
    LET signed == Len(s) > 0 /\ s[1] \in {"+", "-"}
        body == IF signed THEN Tail(s) ELSE s
    IN  IF ~AllDigits(body) THEN OutOfSpec
        ELSE IF signed /\ s[1] = "-" THEN Ok(0 - DigitsValue(body))
        ELSE Ok(DigitsValue(body))

\* Display of a natural number, digit by digit.
RECURSIVE NatToString(_)
NatToString(n) ==
    IF n < 10 THEN <<DigitChars[n + 1]>>
    ELSE NatToString(n \div 10) \o <<DigitChars[(n % 10) + 1]>>

\* ToString::to_string of an integer.
to_string(n) == IF n < 0 THEN <<"-">> \o NatToString(0 - n) ELSE NatToString(n)

\* str::split(sep): the pieces between separators; never empty.
RECURSIVE SplitFrom(_, _, _)
SplitFrom(s, sep, cur) ==
    IF Len(s) = 0 THEN <<cur>>
    ELSE IF s[1] = sep THEN <<cur>> \o SplitFrom(Tail(s), sep, <<>>)
    ELSE SplitFrom(Tail(s), sep, Append(cur, s[1]))
split(s, sep) == SplitFrom(s, sep, <<>>)

\* Lexicographic order of strings by character code (Ord for String).
RECURSIVE StrLess(_, _)
StrLess(a, b) ==
    IF Len(b) = 0 THEN FALSE
    ELSE IF Len(a) = 0 THEN TRUE
    ELSE IF a[1] = b[1] THEN StrLess(Tail(a), Tail(b))
    ELSE CharCode(a[1]) < CharCode(b[1])

\* ------------------------------------------------------------------------
\* DataType and Field (crate::datatypes), as records tagged by variant
\* ------------------------------------------------------------------------
Atom(tag) == [tag |-> tag]
Time32(unit) == [tag |-> "Time32", unit |-> unit]
Time64(unit) == [tag |-> "Time64", unit |-> unit]
Duration(unit) == [tag |-> "Duration", unit |-> unit]
Interval(unit) == [tag |-> "Interval", unit |-> unit]
Timestamp(unit, tz) == [tag |-> "Timestamp", unit |-> unit, tz |-> tz]
Decimal(precision, scale) == [tag |-> "Decimal", precision |-> precision, scale |-> scale]
FixedSizeBinary(size) == [tag |-> "FixedSizeBinary", size |-> size]
List(field) == [tag |-> "List", field |-> field]
LargeList(field) == [tag |-> "LargeList", field |-> field]
FixedSizeList(field, size) == [tag |-> "FixedSizeList", field |-> field, size |-> size]
Map(field, is_sorted) == [tag |-> "Map", field |-> field, is_sorted |-> is_sorted]
Struct(fields) == [tag |-> "Struct", fields |-> fields]
Union(fields, ids, mode) == [tag |-> "Union", fields |-> fields, ids |-> ids, mode |-> mode]
Dictionary(index, values, is_ordered) ==
    [tag |-> "Dictionary", index |-> index, values |-> values, is_ordered |-> is_ordered]
Extension(name, inner, metadata) ==
    [tag |-> "Extension", name |-> name, inner |-> inner, ext_metadata |-> metadata]

\* Field::new(name, data_type, is_nullable), with empty metadata.
EmptyMetadata == <<>>
Field(name, data_type, is_nullable) ==
    [name |-> name, data_type |-> data_type, is_nullable |-> is_nullable,
     metadata |-> EmptyMetadata]
with_metadata(field, metadata) == [field EXCEPT !.metadata = metadata]

TimeUnits == {"Second", "Millisecond", "Microsecond", "Nanosecond"}
IntegerTypes == {"Int8", "UInt8", "Int16", "UInt16", "Int32", "UInt32", "Int64", "UInt64"}

\* ------------------------------------------------------------------------
\* Metadata: BTreeMap<String, String> as a key-sorted sequence of <<key, value>>
\* ------------------------------------------------------------------------
RECURSIVE BTreeInsert(_, _, _)
BTreeInsert(m, k, v) ==
    IF Len(m) = 0 THEN <<<<k, v>>>>
    ELSE IF m[1][1] = k THEN <<<<k, v>>>> \o Tail(m)
    ELSE IF StrLess(k, m[1][1]) THEN <<<<k, v>>>> \o m
    ELSE <<m[1]>> \o BTreeInsert(Tail(m), k, v)

ExtensionNameKey ==
    <<"A", "R", "R", "O", "W", ":", "e", "x", "t", "e", "n", "s", "i", "o", "n", ":",
      "n", "a", "m", "e">>
ExtensionMetadataKey ==
    <<"A", "R", "R", "O", "W", ":", "e", "x", "t", "e", "n", "s", "i", "o", "n", ":",
      "m", "e", "t", "a", "d", "a", "t", "a">>

\* i32::to_ne_bytes (little-endian target) of a non-negative value.
to_ne_bytes(n) ==
    <<n % 256, (n \div 256) % 256, (n \div 65536) % 256, (n \div 16777216) % 256>>

\* The fold with the key's length written where the value's length belongs.
RECURSIVE MetadataEntriesToBytes_key_len_twice(_)
MetadataEntriesToBytes_key_len_twice(m) ==
    IF Len(m) = 0 THEN <<>>
    ELSE to_ne_bytes(Len(m[1][1])) \o as_bytes(m[1][1])
         \o to_ne_bytes(Len(m[1][1])) \o as_bytes(m[1][2])
         \o MetadataEntriesToBytes_key_len_twice(Tail(m))

RECURSIVE MetadataEntriesToBytes(_)
MetadataEntriesToBytes(m) ==
    IF Len(m) = 0 THEN <<>>
    ELSE to_ne_bytes(Len(m[1][1])) \o as_bytes(m[1][1])
         \o to_ne_bytes(Len(m[1][2])) \o as_bytes(m[1][2])
         \o MetadataEntriesToBytes(Tail(m))

metadata_to_bytes(metadata) == to_ne_bytes(Len(metadata)) \o MetadataEntriesToBytes(metadata)

\* Reads at a byte offset (0-based, as pointer arithmetic) of a buffer.
read_ne_i32(data, at) ==
    data[at + 1] + 256 * data[at + 2] + 65536 * data[at + 3] + 16777216 * data[at + 4]
read_bytes(data, at, len) == [i \in 1..len |-> CodeChar(data[at + i])]

\* The loop with the reserved keys also inserted into the result map.
RECURSIVE MetadataLoop_keeps_reserved(_, _, _, _, _, _)
MetadataLoop_keeps_reserved(data, at, left, result, extension_name, extension_metadata) ==
    IF left <= 0
    THEN <<result,
           IF IsSome(extension_name)
           THEN Some(<<Unwrap(extension_name), extension_metadata>>)
           ELSE None>>
    ELSE LET key_len == read_ne_i32(data, at)
             key == read_bytes(data, at + 4, key_len)
             value_len == read_ne_i32(data, at + 4 + key_len)
             value == read_bytes(data, at + 8 + key_len, value_len)
             next == at + 8 + key_len + value_len
         IN  MetadataLoop_keeps_reserved(
                 data, next, left - 1, BTreeInsert(result, key, value),
                 IF key = ExtensionNameKey THEN Some(value) ELSE extension_name,
                 IF key = ExtensionMetadataKey THEN Some(value) ELSE extension_metadata)

\* The loop of metadata_from_bytes: `left` entries remain, `at` is the offset.
RECURSIVE MetadataLoop(_, _, _, _, _, _)
MetadataLoop(data, at, left, result, extension_name, extension_metadata) ==
    IF left <= 0
    THEN <<result,
           IF IsSome(extension_name)
           THEN Some(<<Unwrap(extension_name), extension_metadata>>)
           ELSE None>>
    ELSE LET key_len == read_ne_i32(data, at)
             key == read_bytes(data, at + 4, key_len)
             value_len == read_ne_i32(data, at + 4 + key_len)
             value == read_bytes(data, at + 8 + key_len, value_len)
             next == at + 8 + key_len + value_len
         IN  IF key = ExtensionNameKey
             THEN MetadataLoop(data, next, left - 1, result, Some(value), extension_metadata)
             ELSE IF key = ExtensionMetadataKey
             THEN MetadataLoop(data, next, left - 1, result, extension_name, Some(value))
             ELSE MetadataLoop(data, next, left - 1, BTreeInsert(result, key, value),
                               extension_name, extension_metadata)

\* data: None for a null pointer, Some(bytes) otherwise.  Returns
\* <<Metadata, Extension>>, Extension being None or Some(<<name, Option metadata>>).
metadata_from_bytes(data) ==
    IF ~IsSome(data) THEN <<EmptyMetadata, None>>
    ELSE MetadataLoop(Unwrap(data), 4, read_ne_i32(Unwrap(data), 0), EmptyMetadata, None, None)

\* ------------------------------------------------------------------------
\* to_format: DataType -> format string; Panic for unreachable!/todo! and
\* for the out-of-range slice of an id list of length 0.
\* ------------------------------------------------------------------------
AtomFormats ==
    [Null |-> <<"n">>, Boolean |-> <<"b">>, Int8 |-> <<"c">>, UInt8 |-> <<"C">>,
     Int16 |-> <<"s">>, UInt16 |-> <<"S">>, Int32 |-> <<"i">>, UInt32 |-> <<"I">>,
     Int64 |-> <<"l">>, UInt64 |-> <<"L">>, Float16 |-> <<"e">>, Float32 |-> <<"f">>,
     Float64 |-> <<"g">>, Binary |-> <<"z">>, LargeBinary |-> <<"Z">>, Utf8 |-> <<"u">>,
     LargeUtf8 |-> <<"U">>, Date32 |-> <<"t", "d", "D">>, Date64 |-> <<"t", "d", "m">>]
AtomTags == DOMAIN AtomFormats

UnitLetter(unit) ==
    CASE unit = "Second" -> "s"
      [] unit = "Millisecond" -> "m"
      [] unit = "Microsecond" -> "u"
      [] unit = "Nanosecond" -> "n"

\* ids.iter().fold(String::new(), |a, b| a + &b.to_string() + ",")
RECURSIVE FoldIds(_)
FoldIds(ids) ==
    IF Len(ids) = 0 THEN <<>>
    ELSE to_string(ids[1]) \o <<",">> \o FoldIds(Tail(ids))

RECURSIVE to_format(_)
to_format(data_type) ==
    LET tag == data_type.tag IN
    CASE tag \in AtomTags -> Ok(AtomFormats[tag])
      [] tag = "Time32" ->
            IF data_type.unit = "Second" THEN Ok(<<"t", "t", "s">>)
            ELSE IF data_type.unit = "Millisecond" THEN Ok(<<"t", "t", "m">>)
            ELSE Panic
      [] tag = "Time64" ->
            IF data_type.unit = "Microsecond" THEN Ok(<<"t", "t", "u">>)
            ELSE IF data_type.unit = "Nanosecond" THEN Ok(<<"t", "t", "n">>)
            ELSE Panic
      [] tag = "Duration" -> Ok(<<"t", "D", UnitLetter(data_type.unit)>>)
      [] tag = "Interval" ->
            IF data_type.unit = "YearMonth" THEN Ok(<<"t", "i", "M">>)
            ELSE IF data_type.unit = "DayTime" THEN Ok(<<"t", "i", "D">>)
            ELSE Panic
      [] tag = "Timestamp" ->
            Ok(<<"t", "s", UnitLetter(data_type.unit), ":">>
               \o (IF IsSome(data_type.tz) THEN Unwrap(data_type.tz) ELSE <<>>))
      [] tag = "Decimal" ->
            Ok(<<"d", ":">> \o to_string(data_type.precision) \o <<",">>
               \o to_string(data_type.scale))
      [] tag = "List" -> Ok(<<"+", "l">>)
      [] tag = "LargeList" -> Ok(<<"+", "L">>)
      [] tag = "Struct" -> Ok(<<"+", "s">>)
      [] tag = "FixedSizeBinary" -> Ok(<<"w", ":">> \o to_string(data_type.size))
      [] tag = "FixedSizeList" -> Ok(<<"+", "w", ":">> \o to_string(data_type.size))
      [] tag = "Union" ->
            LET sparsness == IF data_type.mode = "Sparse" THEN "s" ELSE "d"
                ids == IF IsSome(data_type.ids)
                       THEN FoldIds(Unwrap(data_type.ids))
                       ELSE FoldIds([i \in 1..Len(data_type.fields) |-> i - 1])
            IN  IF Len(ids) = 0 THEN Panic
                ELSE Ok(<<"+", "u", sparsness, ":">> \o SubSeq(ids, 1, Len(ids) - 1))
      [] tag = "Map" -> Ok(<<"+", "m">>)
      [] tag = "Dictionary" -> to_format(Atom(data_type.index))
      [] tag = "Extension" -> to_format(data_type.inner)

\* ------------------------------------------------------------------------
\* The heap of exported schema nodes.  A heap h is [nodes, privs]:
\*   nodes[i]  the ArrowSchema struct at address i (0 is the null pointer);
\*   privs[p]  the SchemaPrivateData at address p, which owns the buffers the
\*             node's format, name, metadata and children pointers point into.
\* ------------------------------------------------------------------------
EmptyHeap == [nodes |-> <<>>, privs |-> <<>>]

\* CString::new(s): Panic (unwrap of NulError) on an interior NUL.
CString_new(s) ==
    IF \E i \in 1..Len(s) : s[i] = Nul THEN Panic ELSE Ok(Append(s, Nul))

\* CStr::from_ptr(p).to_str(): the characters before the first NUL.
RECURSIVE CStr_to_str(_)
CStr_to_str(buf) ==
    IF Len(buf) = 0 \/ buf[1] = Nul THEN <<>> ELSE <<buf[1]>> \o CStr_to_str(Tail(buf))

\* Faulty variant of the children: a Map gets no child node.
ChildFields_map_childless(data_type) ==
    CASE data_type.tag \in {"List", "FixedSizeList", "LargeList"} -> <<data_type.field>>
      [] data_type.tag \in {"Struct", "Union"} -> data_type.fields
      [] OTHER -> <<>>

\* The fields whose nodes become the children of the node of `data_type`.
ChildFields(data_type) ==
    CASE data_type.tag \in {"List", "FixedSizeList", "LargeList", "Map"} -> <<data_type.field>>
      [] data_type.tag \in {"Struct", "Union"} -> data_type.fields
      [] OTHER -> <<>>

Bit(b) == IF b THEN 1 ELSE 0

\* Faulty variant of the flags: map-keys-sorted lands on bit 0.
NewFlags_sorted_on_bit0(field) ==
    Bit(field.is_nullable) * 2
    + (IF field.data_type.tag = "Map" THEN Bit(field.data_type.is_sorted) ELSE 0)
    + (IF field.data_type.tag = "Dictionary" THEN Bit(field.data_type.is_ordered) ELSE 0)

\* The flags of ArrowSchema::new.
NewFlags(field) ==
    Bit(field.is_nullable) * 2
    + (IF field.data_type.tag = "Map" THEN Bit(field.data_type.is_sorted) * 4 ELSE 0)
    + (IF field.data_type.tag = "Dictionary" THEN Bit(field.data_type.is_ordered) ELSE 0)

\* The serialized metadata of ArrowSchema::new: None for a null pointer.
NewMetadata(field) ==
    IF field.data_type.tag = "Extension"
    THEN LET m1 == IF IsSome(field.data_type.ext_metadata)
                   THEN BTreeInsert(field.metadata, ExtensionMetadataKey,
                                    Unwrap(field.data_type.ext_metadata))
                   ELSE field.metadata
             m2 == BTreeInsert(m1, ExtensionNameKey, field.data_type.name)
         IN  Some(metadata_to_bytes(m2))
    ELSE IF Len(field.metadata) # 0 THEN Some(metadata_to_bytes(field.metadata))
    ELSE None

\* ArrowSchema::new(field) on heap h: [kind |-> "Ok", h, id] with the node at
\* address id, or Panic.  Children are allocated first, then the dictionary,
\* then the private data and the node itself.
RECURSIVE ArrowSchema_new(_, _)
RECURSIVE NewChildren(_, _, _)
NewChildren(h, fields, ptrs) ==
    IF Len(fields) = 0 THEN [kind |-> "Ok", h |-> h, ptrs |-> ptrs]
    ELSE LET c == ArrowSchema_new(h, fields[1])
         IN  IF c.kind # "Ok" THEN Panic
             ELSE NewChildren(c.h, Tail(fields), Append(ptrs, c.id))

ArrowSchema_new(h, field) ==
    LET format == to_format(field.data_type)
        children == IF IsOk(format)
                    THEN NewChildren(h, ChildFields(field.data_type), <<>>)
                    ELSE Panic
        dictionary == IF ~IsOk(children) THEN Panic
                      ELSE IF field.data_type.tag = "Dictionary"
                      THEN ArrowSchema_new(children.h,
                                           Field(<<>>, field.data_type.values, TRUE))
                      ELSE [kind |-> "Ok", h |-> children.h, id |-> 0]
        name_c == CString_new(field.name)
        format_c == IF IsOk(format) THEN CString_new(format.val) ELSE Panic
    IN  IF ~IsOk(format) \/ ~IsOk(children) \/ ~IsOk(dictionary)
           \/ ~IsOk(name_c) \/ ~IsOk(format_c)
        THEN Panic
        ELSE LET h2 == dictionary.h
                 metadata == NewMetadata(field)
                 p == Len(h2.privs) + 1
                 id == Len(h2.nodes) + 1
                 private == [name |-> name_c.val, format |-> format_c.val,
                             metadata |-> metadata, children_ptr |-> children.ptrs,
                             dictionary |-> IF dictionary.id = 0 THEN None
                                            ELSE Some(dictionary.id)]
                 node == [format |-> p, name |-> p,
                          metadata |-> IF IsSome(metadata) THEN p ELSE 0,
                          flags |-> NewFlags(field),
                          n_children |-> Len(children.ptrs),
                          children |-> p,
                          dictionary |-> dictionary.id,
                          release |-> "c_release_schema",
                          private_data |-> p]
             IN  [kind |-> "Ok",
                  h |-> [nodes |-> Append(h2.nodes, node), privs |-> Append(h2.privs, private)],
                  id |-> id]

\* Faulty variant of ArrowSchema::empty: the release callback is set.
ArrowSchema_empty_with_release ==
    [format |-> 0, name |-> 0, metadata |-> 0, flags |-> 0, n_children |-> 0,
     children |-> 0, dictionary |-> 0, release |-> "c_release_schema", private_data |-> 0]

\* ArrowSchema::empty()
ArrowSchema_empty ==
    [format |-> 0, name |-> 0, metadata |-> 0, flags |-> 0, n_children |-> 0,
     children |-> 0, dictionary |-> 0, release |-> "None", private_data |-> 0]

\* The accessors of ArrowSchema; an assertion failure or unwrap of None is Panic.
format(h, n) ==
    IF h.nodes[n].format = 0 THEN Panic
    ELSE Ok(CStr_to_str(h.privs[h.nodes[n].format].format))

name(h, n) ==
    IF h.nodes[n].name = 0 THEN Panic
    ELSE Ok(CStr_to_str(h.privs[h.nodes[n].name].name))

\* child with a recoverable error in place of the assertion on the index.
child_recoverable(h, n, index) ==
    IF ~(index < h.nodes[n].n_children) THEN OutOfSpec
    ELSE IF h.nodes[n].name = 0 THEN Panic
    ELSE IF h.nodes[n].children = 0 THEN Panic
    ELSE IF h.privs[h.nodes[n].children].children_ptr[index + 1] = 0 THEN Panic
    ELSE Ok(h.privs[h.nodes[n].children].children_ptr[index + 1])

child(h, n, index) ==
    IF ~(index < h.nodes[n].n_children) THEN Panic
    ELSE IF h.nodes[n].name = 0 THEN Panic
    ELSE IF h.nodes[n].children = 0 THEN Panic
    ELSE IF h.privs[h.nodes[n].children].children_ptr[index + 1] = 0 THEN Panic
    ELSE Ok(h.privs[h.nodes[n].children].children_ptr[index + 1])

dictionary(h, n) ==
    IF h.nodes[n].dictionary = 0 THEN None ELSE Some(h.nodes[n].dictionary)

nullable(h, n) == (h.nodes[n].flags \div 2) % 2 = 1

\* The bytes behind the node's metadata pointer.
MetadataPtr(h, n) ==
    IF h.nodes[n].metadata = 0 THEN None ELSE h.privs[h.nodes[n].metadata].metadata

\* ------------------------------------------------------------------------
\* Decoding: to_field, to_integer_type, to_data_type.  A decoding result
\* carries `seen`, the set of nodes to_field was entered on.
\* ------------------------------------------------------------------------
FOk(v, seen) == [kind |-> "Ok", val |-> v, seen |-> seen]
FErr(seen) == [kind |-> "Err", err |-> "OutOfSpec", seen |-> seen]
FPanic(seen) == [kind |-> "Panic", seen |-> seen]

\* Faulty variant of to_integer_type: any other format counts as Int64.
to_integer_type_default_int64(fmt) ==
    CASE fmt = <<"c">> -> Ok("Int8")
      [] fmt = <<"C">> -> Ok("UInt8")
      [] fmt = <<"s">> -> Ok("Int16")
      [] fmt = <<"S">> -> Ok("UInt16")
      [] fmt = <<"i">> -> Ok("Int32")
      [] fmt = <<"I">> -> Ok("UInt32")
      [] OTHER -> Ok("Int64")

to_integer_type(fmt) ==
    CASE fmt = <<"c">> -> Ok("Int8")
      [] fmt = <<"C">> -> Ok("UInt8")
      [] fmt = <<"s">> -> Ok("Int16")
      [] fmt = <<"S">> -> Ok("UInt16")
      [] fmt = <<"i">> -> Ok("Int32")
      [] fmt = <<"I">> -> Ok("UInt32")
      [] fmt = <<"l">> -> Ok("Int64")
      [] fmt = <<"L">> -> Ok("UInt64")
      [] OTHER -> OutOfSpec

\* The childless arms of the match of to_data_type, in source order.
PlainFormats ==
    << <<<<"n">>, Atom("Null")>>, <<<<"b">>, Atom("Boolean")>>,
       <<<<"c">>, Atom("Int8")>>, <<<<"C">>, Atom("UInt8")>>,
       <<<<"s">>, Atom("Int16")>>, <<<<"S">>, Atom("UInt16")>>,
       <<<<"i">>, Atom("Int32")>>, <<<<"I">>, Atom("UInt32")>>,
       <<<<"l">>, Atom("Int64")>>, <<<<"L">>, Atom("UInt64")>>,
       <<<<"e">>, Atom("Float16")>>, <<<<"f">>, Atom("Float32")>>,
       <<<<"g">>, Atom("Float64")>>, <<<<"z">>, Atom("Binary")>>,
       <<<<"Z">>, Atom("LargeBinary")>>, <<<<"u">>, Atom("Utf8")>>,
       <<<<"U">>, Atom("LargeUtf8")>>,
       <<<<"t", "d", "D">>, Atom("Date32")>>, <<<<"t", "d", "m">>, Atom("Date64")>>,
       <<<<"t", "t", "s">>, Time32("Second")>>, <<<<"t", "t", "m">>, Time32("Millisecond")>>,
       <<<<"t", "t", "u">>, Time64("Microsecond")>>, <<<<"t", "t", "n">>, Time64("Nanosecond")>>,
       <<<<"t", "D", "s">>, Duration("Second")>>, <<<<"t", "D", "m">>, Duration("Millisecond")>>,
       <<<<"t", "D", "u">>, Duration("Microsecond")>>, <<<<"t", "D", "n">>, Duration("Nanosecond")>>,
       <<<<"t", "i", "M">>, Interval("YearMonth")>>, <<<<"t", "i", "D">>, Interval("DayTime")>> >>
IsPlainFormat(fmt) == \E i \in 1..Len(PlainFormats) : PlainFormats[i][1] = fmt
PlainType(fmt) == PlainFormats[CHOOSE i \in 1..Len(PlainFormats) : PlainFormats[i][1] = fmt][2]

\* The Decimal arm: parts is the split at "," of the text after "d:".
DecodeDecimal(parts) ==
    IF Len(parts) < 2 \/ Len(parts) > 3 THEN OutOfSpec
    ELSE LET bit_width == parse_usize(parts[1])
             precision == parse_usize(parts[1])
             scale == parse_usize(parts[2])
         IN  IF Len(parts) = 3 /\ ~IsOk(bit_width) THEN OutOfSpec
             ELSE IF Len(parts) = 3 /\ bit_width.val # 128 THEN OutOfSpec
             ELSE IF ~IsOk(precision) THEN OutOfSpec
             ELSE IF ~IsOk(scale) THEN OutOfSpec
             ELSE Ok(Decimal(precision.val, scale.val))

\* The Union arm's type ids: each comma-separated piece parsed as i32.
RECURSIVE ParseTypeIds(_)
ParseTypeIds(pieces) ==
    IF Len(pieces) = 0 THEN Ok(<<>>)
    ELSE LET id == parse_i32(pieces[1])
             rest == ParseTypeIds(Tail(pieces))
         IN  IF ~IsOk(id) THEN OutOfSpec
             ELSE IF ~IsOk(rest) THEN OutOfSpec
             ELSE Ok(<<id.val>> \o rest.val)

TimestampUnit(head) ==
    CASE head = <<"t", "s", "s">> -> "Second"
      [] head = <<"t", "s", "m">> -> "Millisecond"
      [] head = <<"t", "s", "u">> -> "Microsecond"
      [] head = <<"t", "s", "n">> -> "Nanosecond"

RECURSIVE to_field(_, _, _)
RECURSIVE to_data_type(_, _, _)
RECURSIVE DecodeChildren(_, _, _, _, _)

\* (0..n_children).map(|x| to_field(schema.child(x))).collect::<Result<Vec<_>>>()
DecodeChildren(h, n, x, acc, seen) ==
    IF ~(x < h.nodes[n].n_children) THEN FOk(acc, seen)
    ELSE LET c == child(h, n, x)
         IN  IF ~IsOk(c) THEN FPanic(seen)
             ELSE LET f == to_field(h, c.val, seen)
                  IN  IF ~IsOk(f) THEN f
                      ELSE DecodeChildren(h, n, x + 1, Append(acc, f.val), f.seen)

\* to_field(schema.child(0))
DecodeChild0(h, n, seen) ==
    LET c == child(h, n, 0)
    IN  IF ~IsOk(c) THEN FPanic(seen) ELSE to_field(h, c.val, seen)

to_data_type(h, n, seen) ==
    LET fmt == format(h, n) IN
    IF ~IsOk(fmt) THEN FPanic(seen)
    ELSE IF IsPlainFormat(fmt.val) THEN FOk(PlainType(fmt.val), seen)
    ELSE IF fmt.val \in {<<"+", "l">>, <<"+", "L">>, <<"+", "m">>}
    THEN LET f == DecodeChild0(h, n, seen)
         IN  IF ~IsOk(f) THEN f
             ELSE IF fmt.val = <<"+", "l">> THEN FOk(List(f.val), f.seen)
             ELSE IF fmt.val = <<"+", "L">> THEN FOk(LargeList(f.val), f.seen)
             ELSE FOk(Map(f.val, (h.nodes[n].flags \div 4) % 2 # 0), f.seen)
    ELSE IF fmt.val = <<"+", "s">>
    THEN LET fs == DecodeChildren(h, n, 0, <<>>, seen)
         IN  IF ~IsOk(fs) THEN fs ELSE FOk(Struct(fs.val), fs.seen)
    ELSE LET parts == split(fmt.val, ":") IN
         IF Len(parts) = 2
            /\ parts[1] \in {<<"t", "s", "s">>, <<"t", "s", "m">>, <<"t", "s", "u">>, <<"t", "s", "n">>}
         THEN FOk(Timestamp(TimestampUnit(parts[1]), Some(parts[2])), seen)
         ELSE IF Len(parts) = 2 /\ parts[1] = <<"w">>
         THEN LET size == parse_usize(parts[2])
              IN  IF ~IsOk(size) THEN FErr(seen) ELSE FOk(FixedSizeBinary(size.val), seen)
         ELSE IF Len(parts) = 2 /\ parts[1] = <<"+", "w">>
         THEN LET size == parse_usize(parts[2])
              IN  IF ~IsOk(size) THEN FErr(seen)
                  ELSE LET f == DecodeChild0(h, n, seen)
                       IN  IF ~IsOk(f) THEN f
                           ELSE FOk(FixedSizeList(f.val, size.val), f.seen)
         ELSE IF Len(parts) = 2 /\ parts[1] = <<"d">>
         THEN LET d == DecodeDecimal(split(parts[2], ","))
              IN  IF ~IsOk(d) THEN FErr(seen) ELSE FOk(d.val, seen)
         ELSE IF Len(parts) # 0 /\ (parts[1] = <<"+", "u", "s">> \/ parts[1] = <<"+", "u", "d">>)
         THEN LET mode == IF parts[1] = <<"+", "u", "s">> THEN "Sparse" ELSE "Dense"
              IN  IF Len(parts) < 2 THEN FPanic(seen)
                  ELSE LET type_ids == ParseTypeIds(split(parts[2], ","))
                       IN  IF ~IsOk(type_ids) THEN FErr(seen)
                           ELSE LET fs == DecodeChildren(h, n, 0, <<>>, seen)
                                IN  IF ~IsOk(fs) THEN fs
                                    ELSE FOk(Union(fs.val, Some(type_ids.val), mode), fs.seen)
         ELSE FErr(seen)

to_field(h, n, seen0) ==
    LET seen == seen0 \cup {n}
        dict == dictionary(h, n)
        fmt == format(h, n)
        indices == IF IsOk(fmt) THEN to_integer_type(fmt.val) ELSE Panic
        values == to_field(h, Unwrap(dict), seen)
        data_type ==
            IF IsSome(dict)
            THEN IF ~IsOk(fmt) THEN FPanic(seen)
                 ELSE IF ~IsOk(indices) THEN FErr(seen)
                 ELSE IF ~IsOk(values) THEN values
                 ELSE FOk(Dictionary(indices.val, values.val.data_type,
                                     h.nodes[n].flags % 2 = 1), values.seen)
            ELSE to_data_type(h, n, seen)
    IN  IF ~IsOk(data_type) THEN data_type
        ELSE LET md == metadata_from_bytes(MetadataPtr(h, n))
                 metadata == md[1]
                 extension == md[2]
                 data_type2 == IF IsSome(extension)
                               THEN Extension(Unwrap(extension)[1], data_type.val,
                                              Unwrap(extension)[2])
                               ELSE data_type.val
                 nm == name(h, n)
             IN  IF ~IsOk(nm) THEN FPanic(data_type.seen)
                 ELSE FOk(with_metadata(Field(nm.val, data_type2, nullable(h, n)), metadata),
                          data_type.seen)

\* ------------------------------------------------------------------------
\* Release.  A memory m is [nodes, privs, node_freed, priv_freed, ub]:
\* node_freed[i] and priv_freed[p] count how often the allocation was freed
\* (2 stands for twice or more); ub records that freed or null memory was
\* accessed, after which the build may do anything.
\* ------------------------------------------------------------------------
CountFree(k) == IF k >= 1 THEN 2 ELSE 1

RECURSIVE c_release_schema(_, _)
RECURSIVE drop(_, _)
RECURSIVE DropBox(_, _)
RECURSIVE DropBoxes(_, _)

\* Faulty variant of c_release_schema: the release pointer is left set.
c_release_schema_keeps_pointer(m, n) ==
    IF n = 0 THEN m
    ELSE LET p == m.nodes[n].private_data IN
         IF p = 0 THEN [m EXCEPT !.ub = TRUE]
         ELSE LET m1 == [m EXCEPT !.ub = @ \/ m.priv_freed[p] > 0]
                  m2 == DropBoxes(m1, m.privs[p].children_ptr)
                  m3 == IF IsSome(m.privs[p].dictionary)
                        THEN DropBox(m2, Unwrap(m.privs[p].dictionary))
                        ELSE m2
              IN  [m3 EXCEPT !.priv_freed[p] = CountFree(@)]

\* unsafe extern "C" fn c_release_schema(schema)
c_release_schema(m, n) ==
    IF n = 0 THEN m
    ELSE LET p == m.nodes[n].private_data IN
         IF p = 0 THEN [m EXCEPT !.ub = TRUE]
         ELSE LET m1 == [m EXCEPT !.ub = @ \/ m.priv_freed[p] > 0]
                  m2 == DropBoxes(m1, m.privs[p].children_ptr)
                  m3 == IF IsSome(m.privs[p].dictionary)
                        THEN DropBox(m2, Unwrap(m.privs[p].dictionary))
                        ELSE m2
                  m4 == [m3 EXCEPT !.nodes[n].release = "None"]
              IN  [m4 EXCEPT !.priv_freed[p] = CountFree(@)]

\* Faulty variant of Drop: release is called without looking at the pointer.
drop_unconditional(m, n) == c_release_schema(m, n)

\* impl Drop for ArrowSchema
drop(m, n) ==
    IF m.nodes[n].release = "None" THEN m ELSE c_release_schema(m, n)

\* Dropping a Box<ArrowSchema>: Drop::drop, then the node's memory is freed.
DropBox(m, n) ==
    LET m1 == [m EXCEPT !.ub = @ \/ m.node_freed[n] > 0]
        m2 == drop(m1, n)
    IN  [m2 EXCEPT !.node_freed[n] = CountFree(@)]

\* for child in private.children_ptr.iter() { let _ = Box::from_raw(*child); }
DropBoxes(m, ptrs) ==
    IF Len(ptrs) = 0 THEN m ELSE DropBoxes(DropBox(m, ptrs[1]), Tail(ptrs))

\* ------------------------------------------------------------------------
\* State
\* ------------------------------------------------------------------------
VARIABLES
    nodes,       \* the ArrowSchema structs, by address
    privs,       \* the SchemaPrivateData (and foreign buffers), by address
    node_freed,  \* per node: how often its memory was freed
    priv_freed,  \* per private data: how often it was freed
    ub,          \* freed or null memory was accessed
    root,        \* the address of the node handed over, 0 before
    source,      \* what the root was made from: the Field or the foreign input
    last,        \* the last operation and its result
    released,    \* history: the nodes whose release callback was run by their holder
    stream,      \* the stream handle: its state, pending items, recorded error
    array,       \* the MutableFixedSizeBinaryArray under construction
    mutable,     \* the MutablePrimitiveArray under construction
    page         \* the boolean page state and the bitmap decoded from it

vars == <<nodes, privs, node_freed, priv_freed, ub, root, source, last, released,
         stream, array, mutable, page>>

Heap == [nodes |-> nodes, privs |-> privs]
Mem == [nodes |-> nodes, privs |-> privs, node_freed |-> node_freed,
        priv_freed |-> priv_freed, ub |-> ub]

Zeros(n) == [i \in 1..n |-> 0]

Init ==
    /\ nodes = <<>>
    /\ privs = <<>>
    /\ node_freed = <<>>
    /\ priv_freed = <<>>
    /\ ub = FALSE
    /\ root = 0
    /\ source = [kind |-> "none"]
    /\ last = [op |-> "init"]
    /\ released = {}
    /\ stream = [state |-> "None"]
    /\ array = [state |-> "None"]
    /\ mutable = [state |-> "None"]
    /\ page = [state |-> "None"]

\* Nothing was freed: every node and buffer of the heap may be read.
AllLive ==
    /\ ~ub
    /\ \A i \in 1..Len(nodes) : node_freed[i] = 0
    /\ \A p \in 1..Len(privs) : priv_freed[p] = 0

\* ------------------------------------------------------------------------
\* Inputs: the Fields exported and the foreign nodes imported
\* ------------------------------------------------------------------------
MaxFields == 2
MaxParts == 3
MaxForeignChildren == 1

SeqsUpTo(S, n) == UNION {[1..k -> S] : k \in 0..n}

Str_xs == <<"x", "s">>
Str_item == <<"i", "t", "e", "m">>
Str_UTC == <<"U", "T", "C">>
Str_offset == <<"+", "0", "1", ":", "0", "0">>

SimpleFields ==
    {Field(n, t, nl) : n \in {<<"a">>, <<"b">>}, t \in {Atom("Int32"), Atom("Utf8")},
                       nl \in BOOLEAN}

LeafTypes ==
    {Atom(t) : t \in AtomTags}
    \cup {Time32(u) : u \in TimeUnits} \cup {Time64(u) : u \in TimeUnits}
    \cup {Duration(u) : u \in TimeUnits}
    \cup {Interval(u) : u \in {"YearMonth", "DayTime", "MonthDayNano"}}
    \cup {Timestamp(u, tz) : u \in TimeUnits, tz \in {None, Some(Str_UTC), Some(Str_offset)}}
    \cup {Decimal(pr, sc) : pr \in {10, 38}, sc \in {0, 2}}
    \cup {FixedSizeBinary(n) : n \in {0, 16}}

\* Types used below a root type: as list items, dictionary values and
\* extension storage.
NestedTypes ==
    {Atom("Int32"), Atom("Utf8"),
     Timestamp("Second", None),
     List(Field(Str_item, Atom("Int32"), TRUE)),
     Struct(<<Field(<<"a">>, Atom("Int32"), FALSE), Field(<<"b">>, Atom("Utf8"), TRUE)>>),
     Map(Field(<<"e">>, Atom("Int32"), FALSE), TRUE),
     Dictionary("Int8", Atom("Utf8"), FALSE)}

ItemFields == SimpleFields \cup {Field(Str_item, t, TRUE) : t \in NestedTypes}

ListTypes ==
    {List(f) : f \in ItemFields} \cup {LargeList(f) : f \in ItemFields}
    \cup {FixedSizeList(f, 2) : f \in ItemFields}
    \cup {Map(f, srt) : f \in ItemFields, srt \in BOOLEAN}

StructTypes == {Struct(fs) : fs \in SeqsUpTo(SimpleFields, MaxFields)}

\* Explicit type ids for k fields: 3, -1, -5, ...
ExplicitIds(k) == [i \in 1..k |-> 7 - 4 * i]
UnionTypes ==
    {Union(fs, IF explicit THEN Some(ExplicitIds(Len(fs))) ELSE None, mode) :
        fs \in SeqsUpTo(SimpleFields, MaxFields), explicit \in BOOLEAN,
        mode \in {"Sparse", "Dense"}}

DictionaryTypes ==
    {Dictionary(ix, v, o) : ix \in IntegerTypes, v \in NestedTypes, o \in BOOLEAN}

ExtensionTypes ==
    {Extension(<<"e">>, t, md) : t \in NestedTypes, md \in {None, Some(<<"m">>)}}

RootTypes ==
    LeafTypes \cup ListTypes \cup StructTypes \cup UnionTypes
    \cup DictionaryTypes \cup ExtensionTypes

Metadatas == {EmptyMetadata, <<<<<<"k">>, <<"v">>>>>>}

RootFields ==
    {with_metadata(Field(Str_xs, t, nl), md) : t \in RootTypes, nl \in BOOLEAN, md \in Metadatas}

\* ---- foreign format strings: head [":" part {"," part}] [":" extra] ----
RECURSIVE Join(_, _)
Join(pieces, sep) ==
    IF Len(pieces) = 0 THEN <<>>
    ELSE IF Len(pieces) = 1 THEN pieces[1]
    ELSE pieces[1] \o <<sep>> \o Join(Tail(pieces), sep)

Compose(src) ==
    src.head
    \o (IF IsSome(src.tail) THEN <<":">> \o Join(Unwrap(src.tail), ",") ELSE <<>>)
    \o (IF IsSome(src.extra) THEN <<":">> \o Unwrap(src.extra) ELSE <<>>)

PlainHeads == {PlainFormats[i][1] : i \in 1..Len(PlainFormats)}
NestedHeads == {<<"+", "l">>, <<"+", "L">>, <<"+", "m">>, <<"+", "s">>}
ColonHeads ==
    {<<"d">>, <<"w">>, <<"+", "w">>, <<"t", "s", "s">>, <<"t", "s", "n">>,
     <<"+", "u", "s">>, <<"+", "u", "d">>, <<"x">>, <<"i">>}
UnknownHeads ==
    {<<>>, <<"+">>, <<"+", "u">>, <<"+", "x">>, <<"t">>, <<"t", "s">>, <<"t", "t">>,
     <<"t", "d", "d">>, <<"N">>, <<"+", "u", "s", "x">>, <<"t", "i", "n">>}
PartTokens ==
    {<<>>, <<"2">>, <<"1", "0">>, <<"1", "2", "8">>, <<"2", "5", "6">>, <<"x">>, <<"-", "1">>}

FormatInputs ==
    {[head |-> hd, tail |-> None, extra |-> None] :
        hd \in PlainHeads \cup NestedHeads \cup ColonHeads \cup UnknownHeads}
    \cup {[head |-> hd, tail |-> Some(ps), extra |-> None] :
        hd \in ColonHeads, ps \in SeqsUpTo(PartTokens, MaxParts) \ {<<>>}}
    \cup {[head |-> hd, tail |-> Some(<<pt>>), extra |-> Some(ex)] :
        hd \in ColonHeads, pt \in PartTokens, ex \in {<<>>, <<"2">>}}

NodeInputs ==
    {[head |-> hd, tail |-> None, extra |-> None] : hd \in PlainHeads \cup NestedHeads}
    \cup {[head |-> hd, tail |-> Some(<<<<"2">>>>), extra |-> None] :
        hd \in {<<"+", "w">>, <<"+", "u", "s">>, <<"+", "u", "d">>}}
    \cup {[head |-> hd, tail |-> None, extra |-> None] : hd \in {<<"x">>, <<"+", "u", "s">>}}

\* A foreign leaf node and its buffers.
ForeignPriv(nm, fmt, children_ptr, dict) ==
    [name |-> Append(nm, Nul), format |-> Append(fmt, Nul), metadata |-> None,
     children_ptr |-> children_ptr, dictionary |-> dict]
ForeignNode(p, flags, n_children, dict) ==
    [format |-> p, name |-> p, metadata |-> 0, flags |-> flags, n_children |-> n_children,
     children |-> p, dictionary |-> dict, release |-> "foreign", private_data |-> p]

\* The heap of a foreign node with format fmt: nch children of format "i"
\* (addresses 1..nch), then the dictionary node of format "u" if any, then
\* the node itself, at the last address.
ForeignHeap(fmt, flags, nch, has_dict) ==
    LET kids == [i \in 1..nch |-> i]
        d == IF has_dict THEN nch + 1 ELSE 0
        top == nch + Bit(has_dict) + 1
        entry(i) ==
            IF i <= nch THEN <<ForeignNode(i, 2, 0, 0), ForeignPriv(<<"c">>, <<"i">>, <<>>, None)>>
            ELSE IF i < top THEN <<ForeignNode(i, 2, 0, 0), ForeignPriv(<<>>, <<"u">>, <<>>, None)>>
            ELSE <<ForeignNode(i, flags, nch, d),
                   ForeignPriv(<<"f">>, fmt, kids, IF has_dict THEN Some(d) ELSE None)>>
    IN  [nodes |-> [i \in 1..top |-> entry(i)[1]], privs |-> [i \in 1..top |-> entry(i)[2]]]

\* ------------------------------------------------------------------------
\* Actions
\* ------------------------------------------------------------------------
SetHeap(h) ==
    /\ nodes' = h.nodes
    /\ privs' = h.privs
    /\ node_freed' = Zeros(Len(h.nodes))
    /\ priv_freed' = Zeros(Len(h.privs))

SetMem(m) ==
    /\ nodes' = m.nodes
    /\ node_freed' = m.node_freed
    /\ priv_freed' = m.priv_freed
    /\ ub' = m.ub
    /\ UNCHANGED privs

\* The producer exports `field`: ArrowSchema::new(&field), boxed.
ExportField(field) ==
    /\ LET r == ArrowSchema_new(EmptyHeap, field)
       IN  IF IsOk(r)
           THEN /\ SetHeap(r.h)
                /\ root' = r.id
                /\ last' = [op |-> "new", node |-> r.id, panicked |-> FALSE]
           ELSE /\ UNCHANGED <<nodes, privs, node_freed, priv_freed, root>>
                /\ last' = [op |-> "new", node |-> 0, panicked |-> TRUE]
    /\ source' = [kind |-> "field", field |-> field]
    /\ UNCHANGED <<ub, released, stream, array, mutable, page>>

Export ==
    /\ last.op = "init"
    /\ \E field \in RootFields : ExportField(field)

\* A node made by a foreign producer arrives.
Import(src, flags, nch, has_dict) ==
    /\ LET h == ForeignHeap(Compose(src), flags, nch, has_dict)
       IN  /\ SetHeap(h)
           /\ root' = Len(h.nodes)
    /\ source' = [kind |-> "foreign", head |-> src.head, tail |-> src.tail,
                  extra |-> src.extra, has_dict |-> has_dict]
    /\ last' = [op |-> "import", node |-> nch + Bit(has_dict) + 1]
    /\ UNCHANGED <<ub, released, stream, array, mutable, page>>

ImportFormat ==
    /\ last.op = "init"
    /\ \E src \in FormatInputs, nch \in 0..MaxForeignChildren : Import(src, 2, nch, FALSE)

ImportNode ==
    /\ last.op = "init"
    /\ \E src \in NodeInputs, flags \in 0..7, nch \in 0..MaxForeignChildren, has_dict \in BOOLEAN :
        Import(src, flags, nch, has_dict)

\* ---- foreign metadata: entries in the order the producer wrote them ----
Str_e == <<"e">>
Str_m == <<"m">>
MetadataEntries ==
    {<<ExtensionNameKey, Str_e>>, <<ExtensionMetadataKey, Str_m>>, <<<<"k">>, <<"v">>>>}
ForeignMetadatas ==
    {es \in SeqsUpTo(MetadataEntries, Cardinality(MetadataEntries)) :
        \A i, j \in 1..Len(es) : i # j => es[i][1] # es[j][1]}

\* The heap of ForeignHeap whose top node points at serialized metadata.
ForeignHeapWithMetadata(fmt, has_dict, entries) ==
    LET h == ForeignHeap(fmt, 2, 0, has_dict)
        top == Len(h.nodes)
    IN  [nodes |-> [h.nodes EXCEPT ![top].metadata = top],
         privs |-> [h.privs EXCEPT ![top].metadata =
                        Some(to_ne_bytes(Len(entries)) \o MetadataEntriesToBytes(entries))]]

\* A foreign node that carries metadata arrives.
ImportMetadata ==
    /\ last.op = "init"
    /\ \E fmt \in {<<"i">>, <<"u">>}, has_dict \in BOOLEAN, entries \in ForeignMetadatas :
        /\ LET h == ForeignHeapWithMetadata(fmt, has_dict, entries)
           IN  /\ SetHeap(h)
               /\ root' = Len(h.nodes)
               /\ last' = [op |-> "import", node |-> Len(h.nodes)]
        /\ source' = [kind |-> "metadata", fmt |-> fmt, has_dict |-> has_dict,
                      entries |-> entries]
        /\ UNCHANGED <<ub, released, stream, array, mutable, page>>

\* to_field(&nodes[n]) on a node of a heap nothing of which was released.
ToField ==
    /\ AllLive
    /\ last.op \in {"new", "import", "empty"}
    /\ \E n \in 1..Len(nodes) :
        /\ last' = [op |-> "to_field", node |-> n, res |-> to_field(Heap, n, {})]
        /\ UNCHANGED <<nodes, privs, node_freed, priv_freed, ub, root, source, released, stream, array, mutable, page>>

Next == Export \/ ImportFormat \/ ImportNode \/ ImportMetadata \/ ToField

Spec == Init /\ [][Next]_vars

\* ------------------------------------------------------------------------
\* The metadata byte encoding on its own: metadata_to_bytes of a map, then
\* metadata_from_bytes of the buffer, and metadata_from_bytes of a null pointer.
\* ------------------------------------------------------------------------
MaxEntries == 2

MetadataKeys == {<<>>, <<"k">>, <<"a", "b">>, <<"A", "R", "R", "O", "W">>}
MetadataValues == {<<>>, <<"v">>, <<"x", " ", "y">>}

RECURSIVE MapOf(_)
MapOf(entries) ==
    IF Len(entries) = 0 THEN EmptyMetadata
    ELSE BTreeInsert(MapOf(Tail(entries)), entries[1][1], entries[1][2])

MetadataMaps ==
    {MapOf(es) : es \in SeqsUpTo(MetadataKeys \X MetadataValues, MaxEntries)}

MetadataToBytes ==
    /\ last.op = "init"
    /\ \E m \in MetadataMaps :
        /\ source' = [kind |-> "map", map |-> m]
        /\ last' = [op |-> "metadata_to_bytes", bytes |-> metadata_to_bytes(m)]
    /\ UNCHANGED <<nodes, privs, node_freed, priv_freed, ub, root, released, stream, array, mutable, page>>

MetadataFromBytes ==
    /\ last.op = "metadata_to_bytes"
    /\ last' = [op |-> "metadata_from_bytes", data |-> Some(last.bytes),
                out |-> metadata_from_bytes(Some(last.bytes))]
    /\ UNCHANGED <<nodes, privs, node_freed, priv_freed, ub, root, source, released, stream, array, mutable, page>>

MetadataFromNull ==
    /\ last.op = "init"
    /\ source' = [kind |-> "null"]
    /\ last' = [op |-> "metadata_from_bytes", data |-> None, out |-> metadata_from_bytes(None)]
    /\ UNCHANGED <<nodes, privs, node_freed, priv_freed, ub, root, released, stream, array, mutable, page>>

NextMetadata == MetadataToBytes \/ MetadataFromBytes \/ MetadataFromNull \/ Export \/ ToField

SpecMetadata == Init /\ [][NextMetadata]_vars

\* ------------------------------------------------------------------------
\* The life of an exported tree: accessors, the release callback and Drop
\* ------------------------------------------------------------------------
ReleaseInner ==
    {Field(Str_item, t, TRUE) :
        t \in {Atom("Int32"), List(Field(Str_item, Atom("Int32"), TRUE)),
               Dictionary("Int8", Atom("Utf8"), FALSE)}}

ReleaseTypes ==
    NestedTypes
    \cup {List(Field(Str_item, t, TRUE)) : t \in NestedTypes}
    \cup {Struct(fs) : fs \in SeqsUpTo(ReleaseInner, MaxFields)}
    \cup {Dictionary("Int32", t, TRUE) : t \in NestedTypes}
    \cup {Extension(<<"e">>, t, None) : t \in NestedTypes}

ReleaseFields == {Field(Str_xs, t, TRUE) : t \in ReleaseTypes}

ExportTree ==
    /\ last.op = "init"
    /\ \E field \in ReleaseFields : ExportField(field)

\* ArrowSchema::empty(), boxed.
Empty ==
    /\ last.op = "init"
    /\ SetHeap([nodes |-> <<ArrowSchema_empty>>, privs |-> <<>>])
    /\ root' = 1
    /\ source' = [kind |-> "empty"]
    /\ last' = [op |-> "empty", node |-> 1]
    /\ UNCHANGED <<ub, released, stream, array, mutable, page>>

\* The nodes the holder of the tree can still reach: their memory is live.
Reachable(n) == n \in 1..Len(nodes) /\ node_freed[n] = 0

\* The buffers behind node n were not freed (or n has none, being empty).
BuffersLive(n) ==
    IF nodes[n].private_data = 0 THEN TRUE ELSE priv_freed[nodes[n].private_data] = 0

CallFormat ==
    \E n \in 1..Len(nodes) :
        /\ Reachable(n) /\ BuffersLive(n)
        /\ last' = [op |-> "format", node |-> n, str |-> format(Heap, n)]
        /\ UNCHANGED <<nodes, privs, node_freed, priv_freed, ub, root, source, released, stream, array, mutable, page>>

CallName ==
    \E n \in 1..Len(nodes) :
        /\ Reachable(n) /\ BuffersLive(n)
        /\ last' = [op |-> "name", node |-> n, str |-> name(Heap, n)]
        /\ UNCHANGED <<nodes, privs, node_freed, priv_freed, ub, root, source, released, stream, array, mutable, page>>

CallChild ==
    \E n \in 1..Len(nodes), index \in 0..MaxFields :
        /\ Reachable(n) /\ BuffersLive(n)
        /\ last' = [op |-> "child", node |-> n, index |-> index, ptr |-> child(Heap, n, index)]
        /\ UNCHANGED <<nodes, privs, node_freed, priv_freed, ub, root, source, released, stream, array, mutable, page>>

\* The holder of node n invokes its release callback through the node's
\* release pointer; there is nothing to invoke when the pointer is None.
Release ==
    \E n \in 1..Len(nodes) :
        /\ Reachable(n)
        /\ nodes[n].release # "foreign"
        /\ SetMem(IF nodes[n].release = "None" THEN Mem ELSE c_release_schema(Mem, n))
        /\ last' = [op |-> "release", node |-> n, was |-> nodes[n].release]
        /\ released' = IF nodes[n].release = "None" THEN released ELSE released \cup {n}
        /\ UNCHANGED <<root, source, stream, array, mutable, page>>

\* The owner of the root drops its Box<ArrowSchema>.
DropRoot ==
    /\ root # 0
    /\ Reachable(root)
    /\ nodes[root].release # "foreign"
    /\ SetMem(DropBox(Mem, root))
    /\ last' = [op |-> "drop", node |-> root, was |-> nodes[root].release]
    /\ released' = IF nodes[root].release = "None" THEN released ELSE released \cup {root}
    /\ UNCHANGED <<root, source, stream, array, mutable, page>>

NextRelease ==
    ExportTree \/ Empty \/ ToField \/ CallFormat \/ CallName \/ CallChild \/ Release \/ DropRoot

SpecRelease == Init /\ [][NextRelease]_vars

\* ------------------------------------------------------------------------
\* Properties
\* ------------------------------------------------------------------------
HasBit(flags, k) == (flags \div k) % 2 = 1

\* The DataTypes the format grammar can express: everything but
\* Interval(MonthDayNano), Time32 in micro/nanoseconds and Time64 in
\* seconds/milliseconds, at any depth.
RECURSIVE Representable(_)
Representable(dt) ==
    CASE dt.tag = "Time32" -> dt.unit \in {"Second", "Millisecond"}
      [] dt.tag = "Time64" -> dt.unit \in {"Microsecond", "Nanosecond"}
      [] dt.tag = "Interval" -> dt.unit \in {"YearMonth", "DayTime"}
      [] dt.tag \in {"List", "LargeList", "FixedSizeList", "Map"} ->
            Representable(dt.field.data_type)
      [] dt.tag \in {"Struct", "Union"} ->
            \A i \in 1..Len(dt.fields) : Representable(dt.fields[i].data_type)
      [] dt.tag = "Dictionary" -> Representable(dt.values)
      [] dt.tag = "Extension" -> Representable(dt.inner)
      [] OTHER -> TRUE

\* The fields a node's children stand for, by the arity rule of the codec.
ExpectedChildFields(dt) ==
    CASE dt.tag \in {"List", "LargeList", "FixedSizeList", "Map"} -> <<dt.field>>
      [] dt.tag \in {"Struct", "Union"} -> dt.fields
      [] OTHER -> <<>>

Min(a, b) == IF a < b THEN a ELSE b

\* The <<node, field>> pairs of the tree ArrowSchema::new built at node n
\* for field f: the node itself, its children and its dictionary node.
RECURSIVE Built(_, _, _)
Built(h, n, f) ==
    LET kids == h.privs[h.nodes[n].private_data].children_ptr
        fs == ExpectedChildFields(f.data_type)
        d == h.nodes[n].dictionary
    IN  {<<n, f>>}
        \cup UNION {Built(h, kids[i], fs[i]) : i \in 1..Min(Len(kids), Len(fs))}
        \cup (IF d # 0 /\ f.data_type.tag = "Dictionary"
              THEN Built(h, d, Field(<<>>, f.data_type.values, TRUE))
              ELSE {})

Exported == source.kind = "field" /\ root # 0
DecodedRoot == last.op = "to_field" /\ last.node = root

\* C1: for every Field whose DataType the grammar can express,
\* to_field(ArrowSchema::new(field)) returns Ok(f) with f equal to field
\* (name, nullability, metadata, data type; Struct children in order).
C1_RoundTrip ==
    (source.kind = "field" /\ Representable(source.field.data_type)) =>
        /\ last.op = "new" => ~last.panicked
        /\ DecodedRoot => (last.res.kind = "Ok" /\ last.res.val = source.field)

\* A foreign Decimal format "d:" p "," s ["," bitwidth] with numeric parts.
DecimalInput ==
    /\ source.kind = "foreign"
    /\ source.head = <<"d">>
    /\ IsSome(source.tail)
    /\ ~IsSome(source.extra)
    /\ Len(Unwrap(source.tail)) \in {2, 3}
    /\ \A i \in 1..Len(Unwrap(source.tail)) : AllDigits(Unwrap(source.tail)[i])

\* C2: decoding "d:<precision>,<scale>[,<bitwidth>]" fails with OutOfSpec iff
\* a bitwidth is present and differs from 128; otherwise it yields
\* Decimal(precision, scale).
C2_DecimalBitWidth ==
    (DecimalInput /\ DecodedRoot) =>
        LET parts == Unwrap(source.tail)
        IN  IF Len(parts) = 3 /\ DigitsValue(parts[3]) # 128
            THEN last.res.kind = "Err"
            ELSE /\ last.res.kind = "Ok"
                 /\ last.res.val.data_type
                        = Decimal(DigitsValue(parts[1]), DigitsValue(parts[2]))

IsInteger(s) == AllDigits(IF Len(s) > 0 /\ s[1] \in {"+", "-"} THEN Tail(s) ELSE s)

\* The format strings of the grammar, by the pieces they were composed of.
InGrammar(src) ==
    IF ~IsSome(src.tail) THEN src.head \in PlainHeads \cup NestedHeads
    ELSE LET parts == Unwrap(src.tail) IN
         CASE src.head \in {<<"t", "s", "s">>, <<"t", "s", "n">>} -> TRUE
           [] src.head \in {<<"w">>, <<"+", "w">>} ->
                ~IsSome(src.extra) /\ Len(parts) = 1 /\ AllDigits(parts[1])
           [] src.head = <<"d">> ->
                /\ ~IsSome(src.extra)
                /\ Len(parts) \in {2, 3}
                /\ \A i \in 1..Len(parts) : AllDigits(parts[i])
           [] src.head \in {<<"+", "u", "s">>, <<"+", "u", "d">>} ->
                ~IsSome(src.extra) /\ \A i \in 1..Len(parts) : IsInteger(parts[i])
           [] OTHER -> FALSE

\* C3: to_field on a node whose format string is outside the grammar returns
\* Err(OutOfSpec) and never panics.
C3_MalformedIsOutOfSpec ==
    (source.kind = "foreign" /\ ~InGrammar(source) /\ DecodedRoot) => last.res.kind = "Err"

\* The nodes below n: its children and dictionary node, transitively.
RECURSIVE Descendants(_)
Descendants(n) ==
    LET p == nodes[n].private_data
        below == IF p = 0 THEN {}
                 ELSE {privs[p].children_ptr[i] : i \in 1..Len(privs[p].children_ptr)}
                      \cup (IF IsSome(privs[p].dictionary)
                            THEN {Unwrap(privs[p].dictionary)} ELSE {})
    IN  below \cup UNION {Descendants(c) : c \in below}

NoDoubleFree ==
    /\ ~ub
    /\ \A i \in 1..Len(nodes) : node_freed[i] <= 1
    /\ \A p \in 1..Len(privs) : priv_freed[p] <= 1

\* Release ran on a node that still had its callback.
ReleaseRan == last.op \in {"release", "drop"} /\ last.was = "c_release_schema"

\* C4: running release on an exported node (callback or Drop) frees its
\* private data and every child and dictionary node of its subtree exactly
\* once and sets its release pointer to None; nothing is freed twice, also
\* when a child was released on its own before.
C4_ReleaseFreesSubtreeOnce ==
    ReleaseRan =>
        /\ nodes[last.node].release = "None"
        /\ priv_freed[nodes[last.node].private_data] = 1
        /\ \A d \in Descendants(last.node) :
              node_freed[d] = 1 /\ priv_freed[nodes[d].private_data] = 1
        /\ last.op = "drop" => node_freed[last.node] = 1
        /\ NoDoubleFree

C4_Witness ==
    /\ ReleaseRan
    /\ last.node = root
    /\ nodes[root].dictionary # 0
    /\ released \cap Descendants(root) # {}

\* C5: once release has run on a node, invoking release on it again (through
\* the release pointer or by Drop) changes nothing: the pointer is None and no
\* private data and no node is freed a second time, in any interleaving.
C5_SecondReleaseIsNoOp ==
    /\ []NoDoubleFree
    /\ [][(last'.op \in {"release", "drop"} /\ last'.was = "None") =>
            /\ nodes' = nodes
            /\ priv_freed' = priv_freed
            /\ ub' = ub
            /\ nodes'[last'.node].release = "None"
            /\ \A i \in 1..Len(nodes) :
                  node_freed'[i] = node_freed[i] \/ (i = root /\ last'.op = "drop")]_vars

C5_Witness ==
    /\ last.op \in {"release", "drop"}
    /\ last.was = "None"
    /\ last.node \in released

\* C6: ArrowSchema::empty() has release None, null pointers, flags 0 and no
\* children; dropping it frees nothing, and format(), name() and child(i)
\* fail by assertion.
C6_EmptyNode ==
    source.kind = "empty" =>
        /\ nodes[root].release = "None"
        /\ nodes[root].format = 0 /\ nodes[root].name = 0 /\ nodes[root].metadata = 0
        /\ nodes[root].children = 0 /\ nodes[root].dictionary = 0
        /\ nodes[root].private_data = 0
        /\ nodes[root].flags = 0 /\ nodes[root].n_children = 0
        /\ privs = <<>> /\ ~ub
        /\ last.op \in {"format", "name"} => last.str = Panic
        /\ last.op = "child" => last.ptr = Panic

C6_Witness == source.kind = "empty" /\ last.op = "child" /\ node_freed[root] = 0

\* C7: each node built by ArrowSchema::new has bit 1 (value 2) set iff the
\* field is nullable, bit 0 (1) iff the type is a Dictionary with ordered =
\* true, bit 2 (4) iff the type is a Map with sorted keys, and no other bit;
\* to_field reads nullability, dictionary order and map sortedness from
\* exactly those bits.
C7_Flags ==
    /\ Exported =>
          \A nf \in Built(Heap, root, source.field) :
              LET flags == nodes[nf[1]].flags
                  dt == nf[2].data_type
              IN  /\ HasBit(flags, 2) <=> nf[2].is_nullable
                  /\ HasBit(flags, 1) <=> (dt.tag = "Dictionary" /\ dt.is_ordered)
                  /\ HasBit(flags, 4) <=> (dt.tag = "Map" /\ dt.is_sorted)
                  /\ flags \in 0..7
    /\ (last.op = "to_field" /\ last.res.kind = "Ok") =>
          LET flags == nodes[last.node].flags
              f == last.res.val
          IN  /\ f.is_nullable <=> HasBit(flags, 2)
              /\ f.data_type.tag = "Dictionary" => (f.data_type.is_ordered <=> HasBit(flags, 1))
              /\ f.data_type.tag = "Map" => (f.data_type.is_sorted <=> HasBit(flags, 4))

C7_Witness ==
    /\ Exported
    /\ DecodedRoot
    /\ source.field.data_type.tag = "Map"
    /\ source.field.data_type.is_sorted
    /\ source.field.is_nullable
    /\ nodes[root].flags = 6
    /\ last.res.kind = "Ok"

\* The number of child nodes the arity rule gives a type.
ExpectedChildren(dt) ==
    CASE dt.tag \in {"List", "LargeList", "FixedSizeList", "Map"} -> 1
      [] dt.tag \in {"Struct", "Union"} -> Len(dt.fields)
      [] OTHER -> 0

\* C8: a node built by ArrowSchema::new has exactly one child for List,
\* LargeList, FixedSizeList and Map, one child per field in field order for
\* Struct and Union, none for every other type, and n_children is that
\* number; a nullable List(Int32) field "xs" gives format "+l", the nullable
\* bit and one child of format "i".
C8_Children ==
    Exported =>
        /\ \A nf \in Built(Heap, root, source.field) :
              LET n == nf[1]
                  kids == privs[nodes[n].children].children_ptr
                  fs == ExpectedChildFields(nf[2].data_type)
              IN  /\ nodes[n].n_children = ExpectedChildren(nf[2].data_type)
                  /\ Len(kids) = nodes[n].n_children
                  /\ \A i \in 1..Len(kids) :
                        /\ kids[i] # 0
                        /\ name(Heap, kids[i]) = Ok(fs[i].name)
                        /\ format(Heap, kids[i]) = to_format(fs[i].data_type)
        /\ source.field.data_type = List(Field(Str_item, Atom("Int32"), TRUE))
           /\ source.field.is_nullable
           => /\ format(Heap, root) = Ok(<<"+", "l">>)
              /\ HasBit(nodes[root].flags, 2)
              /\ nodes[root].n_children = 1
              /\ format(Heap, child(Heap, root, 0).val) = Ok(<<"i">>)

C8_Witness ==
    /\ Exported
    /\ source.field.data_type.tag = "Struct"
    /\ Len(source.field.data_type.fields) = MaxFields
    /\ nodes[root].n_children = MaxFields
    /\ last.op = "new"

\* C9: encoding Dictionary(index, values, ordered) gives a node whose format
\* is the index type's format and whose dictionary node encodes an unnamed
\* nullable Field of the values type; decoding it yields Dictionary(index,
\* values, ordered) again.
C9_DictionaryRoundTrip ==
    (Exported /\ source.field.data_type.tag = "Dictionary") =>
        LET dt == source.field.data_type
            d == nodes[root].dictionary
        IN  /\ format(Heap, root) = to_format(Atom(dt.index))
            /\ d # 0
            /\ name(Heap, d) = Ok(<<>>)
            /\ nullable(Heap, d)
            /\ format(Heap, d) = to_format(dt.values)
            /\ DecodedRoot => (last.res.kind = "Ok" /\ last.res.val.data_type = dt)

IntegerFormats ==
    {<<"c">>, <<"C">>, <<"s">>, <<"S">>, <<"i">>, <<"I">>, <<"l">>, <<"L">>}

\* A node with a dictionary node and a format that is no integer format was
\* handed to to_field.
NonIntegerIndexDecoded ==
    /\ last.op = "to_field"
    /\ nodes[last.node].dictionary # 0
    /\ format(Heap, last.node).val \notin IntegerFormats

\* C10: to_field on a node that carries a dictionary node returns
\* Err(OutOfSpec) whenever its own format is none of c, C, s, S, i, I, l, L,
\* and then does not decode the dictionary node.
C10_NonIntegerIndex ==
    NonIntegerIndexDecoded =>
        /\ last.res.kind = "Err"
        /\ nodes[last.node].dictionary \notin last.res.seen

C10_Witness ==
    /\ NonIntegerIndexDecoded
    /\ format(Heap, last.node).val = <<"u">>
    /\ last.res.kind = "Err"

\* ------------------------------------------------------------------------
\* Extension metadata
\* ------------------------------------------------------------------------
HasKey(metadata, key) == \E i \in 1..Len(metadata) : metadata[i][1] = key

EntryValue(entries, key) ==
    IF HasKey(entries, key)
    THEN Some(entries[CHOOSE i \in 1..Len(entries) : entries[i][1] = key][2])
    ELSE None

\* The entries other than the two reserved ones, as a map.
RECURSIVE PlainEntries(_)
PlainEntries(entries) ==
    IF Len(entries) = 0 THEN EmptyMetadata
    ELSE IF entries[1][1] \in {ExtensionNameKey, ExtensionMetadataKey}
    THEN PlainEntries(Tail(entries))
    ELSE BTreeInsert(PlainEntries(Tail(entries)), entries[1][1], entries[1][2])

\* The type a foreign metadata node has apart from its metadata.
ForeignInner ==
    LET t == IF source.fmt = <<"i">> THEN Atom("Int32") ELSE Atom("Utf8")
    IN  IF source.has_dict THEN Dictionary("Int32", Atom("Utf8"), FALSE) ELSE t

DecodedOk == last.op = "to_field" /\ IsOk(last.res)

\* C11: the Field that to_field returns never holds ARROW:extension:name or
\* ARROW:extension:metadata in its metadata; a node whose serialized metadata
\* holds ARROW:extension:name decodes to Extension(name, inner, optional
\* metadata) around the type the node has otherwise, with the remaining
\* entries as the Field's metadata; and an exported Extension field comes back
\* with the caller's Field.metadata, the extension entries being carried by
\* the data type only.
C11_ExtensionMetadata ==
    DecodedOk =>
        /\ ~HasKey(last.res.val.metadata, ExtensionNameKey)
        /\ ~HasKey(last.res.val.metadata, ExtensionMetadataKey)
        /\ (source.kind = "metadata" /\ DecodedRoot) =>
              /\ last.res.val.metadata = PlainEntries(source.entries)
              /\ last.res.val.data_type =
                    IF HasKey(source.entries, ExtensionNameKey)
                    THEN Extension(Unwrap(EntryValue(source.entries, ExtensionNameKey)),
                                   ForeignInner,
                                   EntryValue(source.entries, ExtensionMetadataKey))
                    ELSE ForeignInner
        /\ (Exported /\ DecodedRoot /\ source.field.data_type.tag = "Extension") =>
              /\ source.field.metadata \in Metadatas
              /\ last.res.val.metadata = source.field.metadata
              /\ last.res.val.data_type.tag = "Extension"
              /\ last.res.val.data_type.name = source.field.data_type.name
              /\ last.res.val.data_type.ext_metadata = source.field.data_type.ext_metadata

C11_Witness ==
    /\ source.kind = "metadata"
    /\ Len(source.entries) = 3
    /\ DecodedRoot
    /\ IsOk(last.res)
    /\ last.res.val.data_type.tag = "Extension"
    /\ last.res.val.metadata # EmptyMetadata

\* ------------------------------------------------------------------------
\* Metadata byte encoding
\* ------------------------------------------------------------------------
\* The four bytes at offset `at` are a 32-bit encoding of n.
IsI32At(bytes, at, n) ==
    /\ at + 4 <= Len(bytes)
    /\ \A i \in 1..4 : bytes[at + i] \in 0..255
    /\ bytes[at + 1] + 256 * (bytes[at + 2] + 256 * (bytes[at + 3] + 256 * bytes[at + 4])) = n

IsStrAt(bytes, at, str) ==
    /\ at + Len(str) <= Len(bytes)
    /\ \A i \in 1..Len(str) : bytes[at + i] = CharCode(str[i])

\* Offset of entry i of map m in its encoding.
RECURSIVE EntryOffset(_, _)
EntryOffset(m, i) ==
    IF i = 1 THEN 4
    ELSE EntryOffset(m, i - 1) + 8 + Len(m[i - 1][1]) + Len(m[i - 1][2])

MetadataLayout(m, bytes) ==
    /\ IsI32At(bytes, 0, Len(m))
    /\ Len(bytes) = EntryOffset(m, Len(m) + 1)
    /\ \A i \in 1..Len(m) :
        LET at == EntryOffset(m, i)
        IN  /\ IsI32At(bytes, at, Len(m[i][1]))
            /\ IsStrAt(bytes, at + 4, m[i][1])
            /\ IsI32At(bytes, at + 4 + Len(m[i][1]), Len(m[i][2]))
            /\ IsStrAt(bytes, at + 8 + Len(m[i][1]), m[i][2])

\* C12: metadata_to_bytes writes a 32-bit entry count, then per entry a 32-bit
\* key length, the key bytes, a 32-bit value length and the value bytes;
\* metadata_from_bytes of that buffer returns the map and no extension; a null
\* pointer decodes to the empty map; and a non-Extension field with an empty
\* map is exported with a null metadata pointer.
C12_MetadataBytes ==
    /\ last.op = "metadata_to_bytes" => MetadataLayout(source.map, last.bytes)
    /\ (last.op = "metadata_from_bytes" /\ source.kind = "map") =>
          last.out = <<source.map, None>>
    /\ (last.op = "metadata_from_bytes" /\ source.kind = "null") =>
          last.out = <<EmptyMetadata, None>>
    /\ (Exported /\ source.field.data_type.tag # "Extension"
           /\ source.field.metadata = EmptyMetadata) =>
          nodes[root].metadata = 0

C12_Witness ==
    /\ last.op = "metadata_from_bytes"
    /\ source.kind = "map"
    /\ Len(source.map) = 2
    /\ Len(source.map[1][1]) # Len(source.map[1][2])
    /\ last.out[1] = source.map

\* ------------------------------------------------------------------------
\* Union type ids
\* ------------------------------------------------------------------------
UnionInput ==
    /\ source.kind = "foreign"
    /\ source.head \in {<<"+", "u", "s">>, <<"+", "u", "d">>}
    /\ IsSome(source.tail)
    /\ ~source.has_dict

\* What follows "+us:" or "+ud:" in the format, cut at the commas.
ListedIds ==
    split(Join(Unwrap(source.tail), ",")
          \o (IF IsSome(source.extra) THEN <<":">> \o Unwrap(source.extra) ELSE <<>>),
          ",")

IntegerValue(s) ==
    IF s[1] = "-" THEN 0 - DigitsValue(Tail(s))
    ELSE IF s[1] = "+" THEN DigitsValue(Tail(s))
    ELSE DigitsValue(s)

\* C13: decoding "+us:<ids>" or "+ud:<ids>" fails with OutOfSpec if and only if
\* some comma-separated id is not a base-10 integer; otherwise it yields
\* Union(fields, Some(ids), mode), Sparse for "+us" and Dense for "+ud", the
\* ids in listed order and one field per child node in child order.
C13_UnionIds ==
    /\ (UnionInput /\ DecodedRoot) =>
          IF \E i \in 1..Len(ListedIds) : ~IsInteger(ListedIds[i])
          THEN last.res.kind = "Err"
          ELSE /\ last.res.kind = "Ok"
               /\ last.res.val.data_type =
                     Union([i \in 1..nodes[root].n_children |->
                               Field(<<"c">>, Atom("Int32"), TRUE)],
                           Some([i \in 1..Len(ListedIds) |-> IntegerValue(ListedIds[i])]),
                           IF source.head = <<"+", "u", "s">> THEN "Sparse" ELSE "Dense")
    /\ (Exported /\ DecodedRoot /\ source.field.data_type.tag = "Union"
           /\ IsSome(source.field.data_type.ids)) =>
          /\ last.res.kind = "Ok"
          /\ last.res.val.data_type.tag = "Union"
          /\ last.res.val.data_type.ids = source.field.data_type.ids
          /\ last.res.val.data_type.mode = source.field.data_type.mode
          /\ Len(last.res.val.data_type.fields) = Len(source.field.data_type.fields)
          /\ \A i \in 1..Len(source.field.data_type.fields) :
                last.res.val.data_type.fields[i].name = source.field.data_type.fields[i].name

\* ------------------------------------------------------------------------
\* Unsupported variants
\* ------------------------------------------------------------------------
\* C14: a DataType variant the grammar does not support (Interval(MonthDayNano),
\* Time32 in micro/nanoseconds, Time64 in seconds/milliseconds) never crashes
\* the codec: encoding it does not panic, and decoding the format of an
\* unsupported variant returns Err(OutOfSpec).
C14_UnsupportedIsOutOfSpec ==
    /\ (source.kind = "field" /\ ~Representable(source.field.data_type)
           /\ last.op = "new") => ~last.panicked
    /\ (source.kind = "foreign" /\ source.head = <<"t", "i", "n">>
           /\ ~source.has_dict /\ DecodedRoot) => last.res.kind = "Err"

\* ------------------------------------------------------------------------
\* Stream adapter: one context behind get_schema, get_next, get_last_error
\* and release.  States Open, ErrorPending, Ended, Released.  A stream is
\* [state, field, rest, error, context_freed, calls]: `rest` the items the
\* sequence still yields, `calls` the get_next calls made so far.
\* ------------------------------------------------------------------------
MaxItems == 3

Str_fail == <<"f", "a", "i", "l">>
StreamItems == {"array", "error"}
StreamFields == {Field(Str_xs, t, TRUE) : t \in {Atom("Int32"), Atom("Utf8")}}

StreamOf(field, items) ==
    [state |-> "Open", field |-> field, rest |-> items, error |-> None,
     context_freed |-> 0, calls |-> 0]

get_schema(s) == [status |-> 0, schema |-> ArrowSchema_new(EmptyHeap, s.field), stream |-> s]

\* End of stream reported as a failure instead of a null-marked node.
get_next_fails_at_end(s, failure) ==
    IF Len(s.rest) = 0
    THEN [status |-> failure, release_null |-> TRUE,
          stream |-> [s EXCEPT !.state = "ErrorPending", !.error = Some(Str_fail),
                               !.calls = @ + 1]]
    ELSE IF s.rest[1] = "array"
    THEN [status |-> 0, release_null |-> FALSE,
          stream |-> [s EXCEPT !.rest = Tail(@), !.calls = @ + 1]]
    ELSE [status |-> failure, release_null |-> TRUE,
          stream |-> [s EXCEPT !.state = "ErrorPending", !.rest = Tail(@),
                               !.error = Some(Str_fail), !.calls = @ + 1]]

\* The failure is signalled by the status but its message is not recorded.
get_next_drops_message(s, failure) ==
    IF Len(s.rest) = 0
    THEN [status |-> 0, release_null |-> TRUE,
          stream |-> [s EXCEPT !.state = "Ended", !.calls = @ + 1]]
    ELSE IF s.rest[1] = "array"
    THEN [status |-> 0, release_null |-> FALSE,
          stream |-> [s EXCEPT !.rest = Tail(@), !.calls = @ + 1]]
    ELSE [status |-> failure, release_null |-> TRUE,
          stream |-> [s EXCEPT !.state = "ErrorPending", !.rest = Tail(@),
                               !.calls = @ + 1]]

\* get_next on an Open stream; `failure` is the nonzero status of a failure.
get_next(s, failure) ==
    IF Len(s.rest) = 0
    THEN [status |-> 0, release_null |-> TRUE,
          stream |-> [s EXCEPT !.state = "Ended", !.calls = @ + 1]]
    ELSE IF s.rest[1] = "array"
    THEN [status |-> 0, release_null |-> FALSE,
          stream |-> [s EXCEPT !.rest = Tail(@), !.calls = @ + 1]]
    ELSE [status |-> failure, release_null |-> TRUE,
          stream |-> [s EXCEPT !.state = "ErrorPending", !.rest = Tail(@),
                               !.error = Some(Str_fail), !.calls = @ + 1]]

get_last_error(s) == [msg |-> s.error, stream |-> s]

release(s) == [s EXCEPT !.state = "Released", !.rest = <<>>, !.context_freed = @ + 1]

StreamIdle == UNCHANGED <<nodes, privs, node_freed, priv_freed, ub, root, released, array, mutable, page>>

StreamNew ==
    /\ last.op = "init"
    /\ \E field \in StreamFields, items \in SeqsUpTo(StreamItems, MaxItems) :
        /\ stream' = StreamOf(field, items)
        /\ source' = [kind |-> "stream", items |-> items]
    /\ last' = [op |-> "export_iterator"]
    /\ StreamIdle

GetSchema ==
    /\ stream.state \in {"Open", "ErrorPending", "Ended"}
    /\ LET r == get_schema(stream)
       IN  /\ stream' = r.stream
           /\ last' = [op |-> "get_schema", status |-> r.status, schema |-> r.schema]
    /\ UNCHANGED source
    /\ StreamIdle

GetNext ==
    /\ stream.state = "Open"
    /\ \E failure \in 1..2 :
        LET r == get_next(stream, failure)
        IN  /\ stream' = r.stream
            /\ last' = [op |-> "get_next", status |-> r.status,
                        release_null |-> r.release_null]
    /\ UNCHANGED source
    /\ StreamIdle

GetLastError ==
    /\ stream.state \in {"Open", "ErrorPending", "Ended"}
    /\ LET r == get_last_error(stream)
       IN  /\ stream' = r.stream
           /\ last' = [op |-> "get_last_error", msg |-> r.msg]
    /\ UNCHANGED source
    /\ StreamIdle

StreamRelease ==
    /\ stream.state \in {"Open", "ErrorPending", "Ended"}
    /\ stream' = release(stream)
    /\ last' = [op |-> "release", from |-> stream.state]
    /\ UNCHANGED source
    /\ StreamIdle

NextStream == StreamNew \/ GetSchema \/ GetNext \/ GetLastError \/ StreamRelease

SpecStream == Init /\ [][NextStream]_vars

\* The items the sequence has yielded so far.
Pulled == SubSeq(source.items, 1, Min(stream.calls, Len(source.items)))
Failed(items) == \E i \in 1..Len(items) : items[i] = "error"

\* C15: over a sequence of N arrays and no error, each of the first N get_next
\* calls returns status 0 with a non-null release pointer, the (N+1)-th returns
\* status 0 with a null release pointer and ends the stream; release can be
\* called from Open, ErrorPending and Ended, frees the context exactly once
\* and moves the stream to Released.
C15_StreamContract ==
    /\ (source.kind = "stream" /\ ~Failed(source.items) /\ last.op = "get_next") =>
          /\ last.status = 0
          /\ stream.calls <= Len(source.items) + 1
          /\ stream.calls <= Len(source.items) =>
                (~last.release_null /\ stream.state = "Open")
          /\ stream.calls = Len(source.items) + 1 =>
                (last.release_null /\ stream.state = "Ended")
    /\ source.kind = "stream" =>
          /\ stream.context_freed = IF stream.state = "Released" THEN 1 ELSE 0
          /\ stream.state \in {"Open", "ErrorPending", "Ended"} => ENABLED StreamRelease
          /\ last.op = "release" =>
                (last.from \in {"Open", "ErrorPending", "Ended"}
                   /\ stream.state = "Released")

C15_Witness ==
    /\ source.kind = "stream"
    /\ source.items = <<"array", "array">>
    /\ stream.calls = 3
    /\ last.op = "release"
    /\ last.from = "Ended"
    /\ stream.context_freed = 1

\* C16: a failing pull makes get_next return a nonzero status, record the
\* message and move the stream from Open to ErrorPending; get_last_error then
\* returns that message, and returns none in every state reached without a
\* failure; get_schema and get_last_error never change the stream.
StreamErrorState ==
    source.kind = "stream" =>
        /\ (last.op = "get_next" /\ stream.calls <= Len(source.items)
               /\ source.items[stream.calls] = "error") =>
              /\ last.status # 0
              /\ stream.state = "ErrorPending"
              /\ stream.error = Some(Str_fail)
        /\ last.op = "get_last_error" =>
              last.msg = IF Failed(Pulled) THEN Some(Str_fail) ELSE None
        /\ (stream.state = "ErrorPending") = Failed(Pulled) \/ stream.state = "Released"

C16_StreamErrors ==
    /\ []StreamErrorState
    /\ [][last'.op \in {"get_schema", "get_last_error"} => stream' = stream]_vars

C16_Witness ==
    /\ source.kind = "stream"
    /\ source.items = <<"array", "error">>
    /\ stream.state = "ErrorPending"
    /\ last.op = "get_last_error"
    /\ last.msg = Some(Str_fail)

\* ------------------------------------------------------------------------
\* MutableFixedSizeBinaryArray (src/src/array/fixed_size_binary/mutable.rs):
\* [size, values, validity], values a sequence of bytes and validity None or
\* Some(MutableBitmap), a bitmap being a sequence of booleans.
\* ------------------------------------------------------------------------
bitmap_push(bitmap, bit) == Append(bitmap, bit)
bitmap_pop(bitmap) ==
    IF Len(bitmap) = 0 THEN [bit |-> None, bitmap |-> bitmap]
    ELSE [bit |-> Some(bitmap[Len(bitmap)]), bitmap |-> SubSeq(bitmap, 1, Len(bitmap) - 1)]
extend_constant(bitmap, additional, bit) == bitmap \o [i \in 1..additional |-> bit]
bitmap_set(bitmap, index, bit) == [bitmap EXCEPT ![index + 1] = bit]

\* from_data: panics unless values is a whole number of entries (and on size 0,
\* the remainder by zero) and the validity is as long as the array.
from_data(size, values, validity) ==
    IF size = 0 THEN Panic
    ELSE IF Len(values) % size # 0 THEN Panic
    ELSE IF IsSome(validity) /\ Len(Unwrap(validity)) # Len(values) \div size THEN Panic
    ELSE Ok([size |-> size, values |-> values, validity |-> validity])

with_capacity(size, capacity) == from_data(size, <<>>, None)
new(size) == with_capacity(size, 0)

len(a) == Len(a.values) \div a.size
validity(a) == a.validity
value(a, i) == SubSeq(a.values, i * a.size + 1, (i + 1) * a.size)

\* Vec::resize(new_len, 0) to a greater length.
resize(values, new_len) == values \o [i \in 1..(new_len - Len(values)) |-> 0]

init_validity(a) ==
    LET validity1 == extend_constant(<<>>, len(a), TRUE)
    IN  [a EXCEPT !.validity = Some(bitmap_set(validity1, len(a) - 1, FALSE))]

\* try_push with the length test dropped.
try_push_unchecked(a, val) ==
    IF IsSome(val)
    THEN [kind |-> "Ok",
          array |-> [a EXCEPT !.values = @ \o Unwrap(val),
                              !.validity = IF IsSome(@) THEN Some(bitmap_push(Unwrap(@), TRUE))
                                           ELSE @]]
    ELSE LET a1 == [a EXCEPT !.values = resize(@, Len(@) + a.size)]
         IN  [kind |-> "Ok",
              array |-> IF IsSome(a1.validity)
                        THEN [a1 EXCEPT !.validity = Some(bitmap_push(Unwrap(@), FALSE))]
                        ELSE init_validity(a1)]

\* try_push(value): [kind |-> "Ok" or "Err", array |-> the array afterwards].
try_push(a, val) ==
    IF IsSome(val)
    THEN IF a.size # Len(Unwrap(val)) THEN [kind |-> "Err", array |-> a]
         ELSE [kind |-> "Ok",
               array |-> [a EXCEPT !.values = @ \o Unwrap(val),
                                   !.validity = IF IsSome(@)
                                                THEN Some(bitmap_push(Unwrap(@), TRUE))
                                                ELSE @]]
    ELSE LET a1 == [a EXCEPT !.values = resize(@, Len(@) + a.size)]
         IN  [kind |-> "Ok",
              array |-> IF IsSome(a1.validity)
                        THEN [a1 EXCEPT !.validity = Some(bitmap_push(Unwrap(@), FALSE))]
                        ELSE init_validity(a1)]

\* push: try_push(value).unwrap().
push(a, val) ==
    LET r == try_push(a, val) IN IF r.kind = "Err" THEN Panic ELSE Ok(r.array)

\* pop: [popped |-> Option<Vec<u8>>, array |-> the array afterwards].
pop(a) ==
    IF Len(a.values) < a.size THEN [popped |-> None, array |-> a]
    ELSE LET value_start == Len(a.values) - a.size
             val == SubSeq(a.values, value_start + 1, Len(a.values))
             a1 == [a EXCEPT !.values = SubSeq(@, 1, value_start)]
         IN  IF IsSome(a1.validity)
             THEN LET p == bitmap_pop(Unwrap(a1.validity))
                      a2 == [a1 EXCEPT !.validity = Some(p.bitmap)]
                  IN  IF IsSome(p.bit) /\ Unwrap(p.bit)
                      THEN [popped |-> Some(val), array |-> a2]
                      ELSE [popped |-> None, array |-> a2]
             ELSE [popped |-> Some(val), array |-> a1]

\* MutableArray::push_null.
push_null(a) == [a EXCEPT !.values = resize(@, Len(@) + a.size)]

\* shrink_to_fit: only the capacity of values and validity changes, and the
\* array holds no capacity here.
shrink_to_fit(a) == [a EXCEPT !.values = @, !.validity = @]

\* try_from_iter(iter, size): with_capacity, then try_push of every item.
RECURSIVE TryPushAll(_, _)
TryPushAll(a, items) ==
    IF Len(items) = 0 THEN [kind |-> "Ok", array |-> a]
    ELSE LET r == try_push(a, items[1])
         IN  IF r.kind = "Err" THEN r ELSE TryPushAll(r.array, Tail(items))

try_from_iter(items, size) ==
    LET primitive == with_capacity(size, Len(items))
    IN  IF ~IsOk(primitive) THEN Panic
        ELSE LET r == TryPushAll(primitive.val, items)
             IN  IF r.kind = "Err" THEN [kind |-> "Err"] ELSE Ok(r.array)

\* ---- the array's life: construction, pushes and pops ----
MaxLen == 3

Sizes == {0, 1, 2}
ByteValues == {0, 7}

\* What a caller pushes: a null, or bytes of the array's size or one off.
PushValues(size) ==
    {None} \cup {Some(bytes) : bytes \in UNION {[1..k -> ByteValues] :
                                    k \in {size + 1} \cup {j \in {size - 1, size} : j >= 0}}}

ArrayIdle == UNCHANGED <<nodes, privs, node_freed, priv_freed, ub, root, released, stream, mutable, page>>

\* `source` keeps what was pushed: TRUE for a value, FALSE for a null.
Pushed(vals) == [i \in 1..Len(vals) |-> IsSome(vals[i])]

ArrayNew ==
    /\ last.op = "init"
    /\ \E size \in Sizes :
        LET r == new(size)
        IN  IF IsOk(r)
            THEN /\ array' = r.val
                 /\ source' = [kind |-> "array", pushed |-> <<>>, popped |-> FALSE]
                 /\ last' = [op |-> "new", panicked |-> FALSE]
            ELSE /\ UNCHANGED array
                 /\ source' = [kind |-> "array_panic"]
                 /\ last' = [op |-> "new", panicked |-> TRUE]
    /\ ArrayIdle

ArrayTryFromIter ==
    /\ last.op = "init"
    /\ \E size \in Sizes \ {0} :
        \E items \in SeqsUpTo(PushValues(size), MaxLen) :
            LET r == try_from_iter(items, size)
            IN  IF IsOk(r)
                THEN /\ array' = r.val
                     /\ source' = [kind |-> "array", pushed |-> Pushed(items),
                                   popped |-> FALSE]
                     /\ last' = [op |-> "try_from_iter", result |-> "Ok", items |-> items]
                ELSE /\ UNCHANGED array
                     /\ source' = [kind |-> "array_err"]
                     /\ last' = [op |-> "try_from_iter", result |-> r.kind, items |-> items]
    /\ ArrayIdle

ArrayTryPush ==
    /\ source.kind = "array"
    /\ len(array) < MaxLen
    /\ \E val \in PushValues(array.size) :
        LET r == try_push(array, val)
        IN  /\ array' = r.array
            /\ source' = IF r.kind = "Ok"
                          THEN [source EXCEPT !.pushed = Append(@, IsSome(val))]
                          ELSE source
            /\ last' = [op |-> "try_push", val |-> val, result |-> r.kind, before |-> array]
    /\ ArrayIdle

ArrayPush ==
    /\ source.kind = "array"
    /\ len(array) < MaxLen
    /\ \E val \in PushValues(array.size) :
        LET r == push(array, val)
        IN  IF IsOk(r)
            THEN /\ array' = r.val
                 /\ source' = [source EXCEPT !.pushed = Append(@, IsSome(val))]
                 /\ last' = [op |-> "push", val |-> val, panicked |-> FALSE, before |-> array]
            ELSE /\ UNCHANGED array
                 /\ source' = [kind |-> "array_panic"]
                 /\ last' = [op |-> "push", val |-> val, panicked |-> TRUE, before |-> array]
    /\ ArrayIdle

ArrayPushNull ==
    /\ source.kind = "array"
    /\ len(array) < MaxLen
    /\ array' = push_null(array)
    /\ source' = [source EXCEPT !.pushed = Append(@, FALSE)]
    /\ last' = [op |-> "push_null", before |-> array]
    /\ ArrayIdle

ArrayPop ==
    /\ source.kind = "array"
    /\ LET r == pop(array)
       IN  /\ array' = r.array
           /\ last' = [op |-> "pop", popped |-> r.popped, before |-> array]
    /\ source' = [source EXCEPT !.pushed = SubSeq(@, 1, Len(@) - 1), !.popped = TRUE]
    /\ ArrayIdle

ArrayShrinkToFit ==
    /\ source.kind = "array"
    /\ last.op # "shrink_to_fit"
    /\ array' = shrink_to_fit(array)
    /\ last' = [op |-> "shrink_to_fit", before |-> array]
    /\ UNCHANGED source
    /\ ArrayIdle

NextArray ==
    \/ ArrayNew \/ ArrayTryFromIter \/ ArrayTryPush \/ ArrayPush \/ ArrayPushNull \/ ArrayPop
    \/ ArrayShrinkToFit

SpecArray == Init /\ [][NextArray]_vars

\* C17: try_push(Some(bytes)) returns an error if and only if bytes.len()
\* differs from the array's size; on error values and validity are unchanged,
\* on success len() grows by exactly one; try_push(None) never errors and
\* appends `size` zero bytes.
C17_TryPush ==
    (source.kind = "array" /\ last.op = "try_push") =>
        /\ IsSome(last.val) =>
              (last.result = "Err") = (Len(Unwrap(last.val)) # last.before.size)
        /\ last.result = "Err" =>
              (array.values = last.before.values /\ array.validity = last.before.validity)
        /\ last.result = "Ok" =>
              /\ len(array) = len(last.before) + 1
              /\ IsSome(last.val) => array.values = last.before.values \o Unwrap(last.val)
        /\ ~IsSome(last.val) =>
              /\ last.result = "Ok"
              /\ array.values = last.before.values \o [i \in 1..array.size |-> 0]

C17_Witness ==
    /\ source.kind = "array"
    /\ last.op = "try_push"
    /\ last.result = "Err"
    /\ len(array) = 2
    /\ IsSome(array.validity)

\* The bytes of entry i (from 0) of an array.
EntryBytes(a, i) == [j \in 1..a.size |-> a.values[i * a.size + j]]

\* C18: pop returns None if and only if the array is empty, after any
\* sequence of pushes of values and nulls; on a non-empty array it returns
\* Some of the last entry's bytes.
C18_Pop ==
    (source.kind = "array" /\ last.op = "pop") =>
        /\ (last.popped = None) = (len(last.before) = 0)
        /\ len(last.before) > 0 =>
              last.popped = Some(EntryBytes(last.before, len(last.before) - 1))

\* C19: an array made by new or with_capacity has validity() = None after any
\* sequence of pushes of non-null values; the first push of a null allocates
\* a validity of length len() whose earlier slots are true and whose last slot
\* is false; later pushes append true for a value and false for a null.
C19_LazyValidity ==
    (source.kind = "array" /\ ~source.popped) =>
        validity(array) =
            IF \A i \in 1..Len(source.pushed) : source.pushed[i]
            THEN None
            ELSE Some(source.pushed)

\* ------------------------------------------------------------------------
\* partial_sort_by (src/src/compute/sort/primitive/partial_sort.rs) on a
\* PrimitiveArray [values, validity], validity None or Some(bitmap).  The
\* comparator is the order of the integers.
\* ------------------------------------------------------------------------
Take(seq, n) == SubSeq(seq, 1, Min(n, Len(seq)))
Repeat(x, n) == [i \in 1..n |-> x]

\* cmp(x, y) is Less, reversed when descending.
Before(x, y, descending) == IF descending THEN y < x ELSE x < y

RECURSIVE InsertSorted(_, _, _)
InsertSorted(sorted, x, descending) ==
    IF Len(sorted) = 0 THEN <<x>>
    ELSE IF Before(x, sorted[1], descending) THEN <<x>> \o sorted
    ELSE <<sorted[1]>> \o InsertSorted(Tail(sorted), x, descending)

\* sort_inner: the slice sorted by cmp, reversed when descending.
RECURSIVE sort_inner(_, _)
sort_inner(values, descending) ==
    IF Len(values) = 0 THEN <<>>
    ELSE InsertSorted(sort_inner(Tail(values), descending), values[1], descending)

\* partial_sort_inner: select_nth_unstable_by(limit) panics unless
\* limit < len; then the first `limit` slots hold the least elements in
\* order.  The order of the other slots is unspecified, every caller cuts
\* them off; they are kept sorted here.
partial_sort_inner(values, descending, limit) ==
    IF limit >= Len(values) THEN Panic ELSE Ok(sort_inner(values, descending))

null_count(bitmap) == Cardinality({i \in 1..Len(bitmap) : ~bitmap[i]})

\* The values under the set bits, in order (SlicesIterator).
RECURSIVE Slices(_, _)
Slices(values, bitmap) ==
    IF Len(values) = 0 THEN <<>>
    ELSE (IF bitmap[1] THEN <<values[1]>> ELSE <<>>) \o Slices(Tail(values), Tail(bitmap))

\* Vec::resize(new_len, default) of a buffer, shrinking or growing.
buffer_resize(buffer, new_len) ==
    IF new_len <= Len(buffer) THEN SubSeq(buffer, 1, new_len)
    ELSE buffer \o Repeat(0, new_len - Len(buffer))

PrimitiveArray(values, bitmap) == [values |-> values, validity |-> bitmap]

\* sort_by: the whole array sorted, nulls first or last.
sort_by(a, options) ==
    IF ~IsSome(a.validity)
    THEN Ok(PrimitiveArray(sort_inner(a.values, options.descending), None))
    ELSE LET nulls == null_count(Unwrap(a.validity))
             valids == sort_inner(Slices(a.values, Unwrap(a.validity)), options.descending)
         IN  IF options.nulls_first
             THEN Ok(PrimitiveArray(Repeat(0, nulls) \o valids,
                                    Some(Repeat(FALSE, nulls) \o Repeat(TRUE, Len(valids)))))
             ELSE Ok(PrimitiveArray(valids \o Repeat(0, nulls),
                                    Some(Repeat(TRUE, Len(valids)) \o Repeat(FALSE, nulls))))

\* partial_sort_by(array, cmp, options, limit): Ok(array) or Panic.
partial_sort_by(a, options, limit) ==
    IF limit >= Len(a.values) THEN sort_by(a, options)
    ELSE IF IsSome(a.validity)
    THEN LET bitmap == Unwrap(a.validity)
             nulls == Repeat(FALSE, null_count(bitmap))
             valids == Repeat(TRUE, Len(a.values) - null_count(bitmap))
             valids_len == Len(a.values) - null_count(bitmap)
             slices == Slices(a.values, bitmap)
         IN  IF options.nulls_first
             THEN LET new_validity == Take(nulls \o valids, limit)
                  IN  IF limit > null_count(bitmap)
                      THEN LET r == partial_sort_inner(slices, options.descending,
                                                       limit - null_count(bitmap))
                           IN  IF ~IsOk(r) THEN Panic
                               ELSE Ok(PrimitiveArray(
                                        buffer_resize(Repeat(0, null_count(bitmap)) \o r.val,
                                                      limit),
                                        Some(new_validity)))
                      ELSE Ok(PrimitiveArray(Repeat(0, limit), Some(new_validity)))
             ELSE LET new_validity == Take(valids \o nulls, limit)
                  IN  IF limit > valids_len
                      THEN Ok(PrimitiveArray(
                               sort_inner(slices, options.descending)
                                   \o Repeat(0, limit - valids_len),
                               Some(new_validity)))
                      ELSE LET r == partial_sort_inner(slices, options.descending, limit)
                           IN  IF ~IsOk(r) THEN Panic
                               ELSE Ok(PrimitiveArray(buffer_resize(r.val, limit),
                                                      Some(new_validity)))
    ELSE LET r == partial_sort_inner(a.values, options.descending, limit)
         IN  IF ~IsOk(r) THEN Panic
             ELSE Ok(PrimitiveArray(SubSeq(r.val, 1, limit), None))

MaxSlots == 3

SortValues == {1, 2, 3}
SortArrays ==
    UNION {{PrimitiveArray(vs, bm) :
                vs \in [1..k -> SortValues],
                bm \in {None} \cup {Some(bits) : bits \in [1..k -> BOOLEAN]}} :
           k \in 0..MaxSlots}
SortOptions == [descending : BOOLEAN, nulls_first : BOOLEAN]

PartialSortBy ==
    /\ last.op = "init"
    /\ \E a \in SortArrays, options \in SortOptions, limit \in 0..(MaxSlots + 1) :
        /\ source' = [kind |-> "sort", array |-> a, options |-> options, limit |-> limit]
        /\ last' = [op |-> "partial_sort_by", sorted |-> partial_sort_by(a, options, limit)]
    /\ UNCHANGED <<nodes, privs, node_freed, priv_freed, ub, root, released, stream, array, mutable, page>>

NextSort == PartialSortBy

SpecSort == Init /\ [][NextSort]_vars

Sorted == last.op = "partial_sort_by"

\* C20: the array partial_sort_by returns has exactly `limit` slots, for every
\* array, every SortOptions and every limit.
C20_LimitSlots ==
    Sorted =>
        /\ last.sorted.kind = "Ok"
        /\ Len(last.sorted.val.values) = source.limit

\* The slots of a sorted array that hold nulls: a validity bit FALSE.
IsNullSlot(a, i) == IsSome(a.validity) /\ ~Unwrap(a.validity)[i]

\* The valid values of an array, in slot order.
ValidValues(a) ==
    IF IsSome(a.validity) THEN Slices(a.values, Unwrap(a.validity)) ELSE a.values

InOrder(values, descending) ==
    \A i \in 1..(Len(values) - 1) : ~Before(values[i + 1], values[i], descending)

\* Number of nulls of the input.
InputNulls ==
    IF IsSome(source.array.validity) THEN null_count(Unwrap(source.array.validity)) ELSE 0

\* C21: for every limit below len, partial_sort_by returns, without panicking,
\* the first `limit` entries of the full sort under the same options: the
\* nulls grouped first or last, the valid values ordered by cmp (reversed when
\* descending) and the validity marking exactly the nulls of that prefix.
C21_PartialSortPrefix ==
    (Sorted /\ source.limit < Len(source.array.values)) =>
        /\ last.sorted.kind = "Ok"
        /\ LET out == last.sorted.val
               n == Len(source.array.values)
               valid_in == n - InputNulls
               nulls_out == IF source.options.nulls_first
                            THEN Min(source.limit, InputNulls)
                            ELSE source.limit - Min(source.limit, valid_in)
               valid_out == source.limit - nulls_out
           IN  /\ Len(out.values) = source.limit
               /\ IsSome(out.validity) = IsSome(source.array.validity)
               /\ IsSome(out.validity) => Len(Unwrap(out.validity)) = source.limit
               /\ \A i \in 1..source.limit :
                     IsNullSlot(out, i) =
                        IF source.options.nulls_first THEN i <= nulls_out ELSE i > valid_out
               /\ InOrder(ValidValues(out), source.options.descending)
               /\ ValidValues(out) =
                     Take(sort_inner(ValidValues(source.array), source.options.descending),
                          valid_out)

\* ------------------------------------------------------------------------
\* MutablePrimitiveArray, as src/tests/it/array/primitive/mutable.rs uses it:
\* [values, validity], values a sequence of integers and validity None or
\* Some(MutableBitmap). A null slot holds the default value 0.
\* ------------------------------------------------------------------------
primitive_new == [values |-> <<>>, validity |-> None]

primitive_len(a) == Len(a.values)

\* is_valid(i), i from 0: an array without validity has no null.
primitive_is_valid(a, i) == IsSome(a.validity) => Unwrap(a.validity)[i + 1]

primitive_init_validity(a) ==
    LET validity1 == extend_constant(<<>>, primitive_len(a), TRUE)
    IN  [a EXCEPT !.validity = Some(bitmap_set(validity1, primitive_len(a) - 1, FALSE))]

\* push(Option<T>).
primitive_push(a, val) ==
    IF IsSome(val)
    THEN [a EXCEPT !.values = Append(@, Unwrap(val)),
                   !.validity = IF IsSome(@) THEN Some(bitmap_push(Unwrap(@), TRUE)) ELSE @]
    ELSE LET a1 == [a EXCEPT !.values = Append(@, 0)]
         IN  IF IsSome(a1.validity)
             THEN [a1 EXCEPT !.validity = Some(bitmap_push(Unwrap(@), FALSE))]
             ELSE primitive_init_validity(a1)

\* push_null: push(None).
primitive_push_null(a) == primitive_push(a, None)

\* pop that hands out the stored value of a null slot.
primitive_pop_ignores_validity(a) ==
    IF Len(a.values) = 0 THEN [popped |-> None, array |-> a]
    ELSE LET val == a.values[Len(a.values)]
             a1 == [a EXCEPT !.values = SubSeq(@, 1, Len(@) - 1)]
         IN  IF IsSome(a1.validity)
             THEN [popped |-> Some(val),
                   array |-> [a1 EXCEPT !.validity =
                                 Some(bitmap_pop(Unwrap(a1.validity)).bitmap)]]
             ELSE [popped |-> Some(val), array |-> a1]

\* pop: [popped |-> Option<T>, array |-> the array afterwards].
primitive_pop(a) ==
    IF Len(a.values) = 0 THEN [popped |-> None, array |-> a]
    ELSE LET val == a.values[Len(a.values)]
             a1 == [a EXCEPT !.values = SubSeq(@, 1, Len(@) - 1)]
         IN  IF IsSome(a1.validity)
             THEN LET p == bitmap_pop(Unwrap(a1.validity))
                      a2 == [a1 EXCEPT !.validity = Some(p.bitmap)]
                  IN  IF IsSome(p.bit) /\ Unwrap(p.bit)
                      THEN [popped |-> Some(val), array |-> a2]
                      ELSE [popped |-> None, array |-> a2]
             ELSE [popped |-> Some(val), array |-> a1]

\* ---- the array's life: pushes and pops ----
PrimitiveValues == {1, 2}

PrimitiveIdle ==
    UNCHANGED <<nodes, privs, node_freed, priv_freed, ub, root, released, stream, array, page>>

\* `source` keeps the slots pushed and not yet popped, as Options.
PrimitiveNew ==
    /\ last.op = "init"
    /\ mutable' = primitive_new
    /\ source' = [kind |-> "primitive", slots |-> <<>>]
    /\ last' = [op |-> "new"]
    /\ PrimitiveIdle

PrimitivePush ==
    /\ source.kind = "primitive"
    /\ primitive_len(mutable) < MaxLen
    /\ \E val \in {None} \cup {Some(v) : v \in PrimitiveValues} :
        /\ mutable' = primitive_push(mutable, val)
        /\ source' = [source EXCEPT !.slots = Append(@, val)]
        /\ last' = [op |-> "push", val |-> val, before |-> mutable]
    /\ PrimitiveIdle

PrimitivePushNull ==
    /\ source.kind = "primitive"
    /\ primitive_len(mutable) < MaxLen
    /\ mutable' = primitive_push_null(mutable)
    /\ source' = [source EXCEPT !.slots = Append(@, None)]
    /\ last' = [op |-> "push_null", before |-> mutable]
    /\ PrimitiveIdle

PrimitivePop ==
    /\ source.kind = "primitive"
    /\ LET r == primitive_pop(mutable)
       IN  /\ mutable' = r.array
           /\ last' = [op |-> "pop", popped |-> r.popped, before |-> mutable,
                       slots |-> source.slots]
    /\ source' = [source EXCEPT !.slots = SubSeq(@, 1, Len(@) - 1)]
    /\ PrimitiveIdle

NextPrimitive == PrimitiveNew \/ PrimitivePush \/ PrimitivePushNull \/ PrimitivePop

SpecPrimitive == Init /\ [][NextPrimitive]_vars

\* The array holds exactly the given slots: a valid slot its value, a null
\* slot marked null.
HoldsSlots(a, slots) ==
    /\ primitive_len(a) = Len(slots)
    /\ IsSome(a.validity) => Len(Unwrap(a.validity)) = Len(slots)
    /\ \A i \in 1..Len(slots) :
          /\ primitive_is_valid(a, i - 1) = IsSome(slots[i])
          /\ IsSome(slots[i]) => a.values[i] = Unwrap(slots[i])

\* C22: after any sequence of push(Some(v)), push(None) and push_null, pop
\* removes the last slot and returns Some(v) if that slot held the valid value
\* v and None if it was null; on an empty array pop returns None and leaves
\* len() at 0; each pop of a non-empty array lowers len() by one and leaves the
\* values and validity of the remaining slots unchanged.
C22_PrimitivePop ==
    (source.kind = "primitive" /\ last.op = "pop") =>
        /\ HoldsSlots(last.before, last.slots)
        /\ IF Len(last.slots) = 0
           THEN last.popped = None /\ primitive_len(mutable) = 0
           ELSE /\ last.popped = last.slots[Len(last.slots)]
                /\ primitive_len(mutable) = primitive_len(last.before) - 1
                /\ \A i \in 0..(primitive_len(mutable) - 1) :
                      /\ mutable.values[i + 1] = last.before.values[i + 1]
                      /\ primitive_is_valid(mutable, i) = primitive_is_valid(last.before, i)
        /\ HoldsSlots(mutable, source.slots)

C22_Witness ==
    /\ source.kind = "primitive"
    /\ last.op = "pop"
    /\ Len(last.slots) = 3
    /\ last.popped = None
    /\ IsSome(source.slots[2])
    /\ ~IsSome(source.slots[1])

\* C23: child(index) aborts by assertion, returning neither a recoverable
\* error nor a pointer read past the child pointer array, whenever
\* index >= n_children; for index < n_children on a node built by
\* ArrowSchema::new it returns the index-th encoded child, the node of the
\* index-th child field.
C23_ChildIndex ==
    last.op = "child" =>
        LET n == last.node
        IN  /\ last.index >= nodes[n].n_children => last.ptr = Panic
            /\ (source.kind = "field" /\ AllLive /\ last.index < nodes[n].n_children) =>
                  /\ \E nf \in Built(Heap, root, source.field) : nf[1] = n
                  /\ \A nf \in Built(Heap, root, source.field) :
                        nf[1] = n =>
                           LET fs == ExpectedChildFields(nf[2].data_type)
                               c == privs[nodes[n].children].children_ptr[last.index + 1]
                           IN  /\ last.index < Len(fs)
                               /\ last.ptr = Ok(c)
                               /\ name(Heap, c) = Ok(fs[last.index + 1].name)
                               /\ format(Heap, c) = to_format(fs[last.index + 1].data_type)

C23_Witness ==
    /\ last.op = "child"
    /\ source.kind = "field"
    /\ AllLive
    /\ nodes[last.node].n_children = 1
    /\ last.index = 1
    /\ last.ptr = Panic

\* ------------------------------------------------------------------------
\* The Required state of a boolean parquet page
\* (src/src/io/parquet/read/deserialize/boolean/basic.rs): [values, offset,
\* length], values the bits of the page buffer, and the decoded state
\* (values, validity), two bitmaps.
\* ------------------------------------------------------------------------
\* Required::new(page): the buffer of the page and its number of values.
Required_new(buffer, num_values) ==
    [values |-> buffer, offset |-> 0, length |-> num_values]

\* State::len of a Required state.
State_len(state) == state.length - state.offset

\* BooleanDecoder::with_capacity: two empty bitmaps.
decoder_with_capacity == [values |-> <<>>, validity |-> <<>>]

\* MutableBitmap::extend_from_slice(slice, offset, length): appends `length`
\* bits of the slice, from bit `offset` on.
extend_from_slice(bitmap, slice, offset, length) ==
    bitmap \o [i \in 1..length |-> slice[offset + i]]

\* extend_from_state clamping `remaining` by the page length alone.
extend_from_state_clamps_by_length(state, decoded, remaining) ==
    LET remaining1 == Min(remaining, state.length)
    IN  [state |-> [state EXCEPT !.offset = @ + remaining1],
         decoded |-> [decoded EXCEPT !.values =
                         extend_from_slice(@, state.values, state.offset, remaining1)]]

\* BooleanDecoder::extend_from_state on State::Required.
extend_from_state(state, decoded, remaining) ==
    LET remaining1 == Min(remaining, state.length - state.offset)
    IN  [state |-> [state EXCEPT !.offset = @ + remaining1],
         decoded |-> [decoded EXCEPT !.values =
                         extend_from_slice(@, state.values, state.offset, remaining1)]]

\* ---- a page's life: the state is built, then drained in chunks ----
MaxValues == 4

Bits(byte) == [i \in 1..8 |-> (byte \div (2 ^ (i - 1))) % 2 = 1]

\* Page buffers long enough for MaxValues + 1 values and more.
PageBuffers == {Bits(b1) \o Bits(b2) : b1 \in {5, 178}, b2 \in {0, 255}}

PageIdle ==
    UNCHANGED <<nodes, privs, node_freed, priv_freed, ub, root, released, stream, array, mutable>>

\* build_state of a plain, required, unfiltered page, and with_capacity.
BuildState ==
    /\ last.op = "init"
    /\ \E buffer \in PageBuffers, num_values \in 0..MaxValues :
        /\ page' = [state |-> Required_new(buffer, num_values),
                    decoded |-> decoder_with_capacity]
        /\ source' = [kind |-> "page", buffer |-> buffer, num_values |-> num_values]
    /\ last' = [op |-> "build_state"]
    /\ PageIdle

ExtendFromState ==
    /\ source.kind = "page"
    /\ \E remaining \in 0..(MaxValues + 1) :
        LET r == extend_from_state(page.state, page.decoded, remaining)
        IN  /\ page' = [state |-> r.state, decoded |-> r.decoded]
            /\ last' = [op |-> "extend_from_state", remaining |-> remaining, before |-> page]
    /\ UNCHANGED source
    /\ PageIdle

NextPage == BuildState \/ ExtendFromState

SpecPage == Init /\ [][NextPage]_vars

\* C24: for a Required boolean page state, offset <= length after any
\* sequence of extend_from_state calls; each call with argument `remaining`
\* appends exactly min(remaining, length - offset) values to the decoded
\* bitmap (the page's bits from offset on), advances offset by that amount
\* and lowers State::len() by the same amount.
C24_RequiredOffset ==
    source.kind = "page" =>
        /\ page.state.offset <= page.state.length
        /\ last.op = "extend_from_state" =>
              LET was == last.before
                  k == Min(last.remaining, was.state.length - was.state.offset)
              IN  /\ Len(page.decoded.values) = Len(was.decoded.values) + k
                  /\ page.decoded.values =
                        was.decoded.values
                        \o SubSeq(source.buffer, was.state.offset + 1, was.state.offset + k)
                  /\ page.decoded.validity = was.decoded.validity
                  /\ page.state.offset = was.state.offset + k
                  /\ State_len(page.state) = State_len(was.state) - k
                  /\ page.state.length = source.num_values
                  /\ page.state.values = source.buffer

C24_Witness ==
    /\ source.kind = "page"
    /\ last.op = "extend_from_state"
    /\ last.before.state.offset = 1
    /\ last.remaining > State_len(last.before.state)
    /\ page.state.offset = page.state.length
    /\ Len(page.decoded.values) = 3

\* C25: after any sequence of try_push, push, pop, push_null and
\* shrink_to_fit, values.len() is a multiple of size and the validity, when
\* present, has length exactly len() = values.len() / size; in particular the
\* slot appended by push_null is marked null.
C25_ValidityLength ==
    source.kind = "array" =>
        /\ Len(array.values) % array.size = 0
        /\ IsSome(array.validity) => Len(Unwrap(array.validity)) = len(array)
        /\ last.op = "push_null" =>
              /\ IsSome(array.validity)
              /\ Len(Unwrap(array.validity)) = len(array)
              /\ ~Unwrap(array.validity)[len(array)]

\* The type a node's format string is made from: the storage type below any
\* Extension wrappers.
RECURSIVE Storage(_)
Storage(dt) == IF dt.tag = "Extension" THEN Storage(dt.inner) ELSE dt

\* C26: for every Field the grammar can express, including Extension wrapping
\* a List, Struct, Map, Union or Dictionary type and a Union with zero fields,
\* ArrowSchema::new followed by to_field completes without a panic or
\* assertion failure: the encoded node carries every child node and the
\* dictionary node that its format string makes the decoder look up.
C26_NoPanic ==
    (source.kind = "field" /\ Representable(source.field.data_type)) =>
        /\ last.op = "new" => ~last.panicked
        /\ Exported =>
              LET st == Storage(source.field.data_type)
              IN  /\ nodes[root].n_children = ExpectedChildren(st)
                  /\ st.tag = "Dictionary" => nodes[root].dictionary # 0
        /\ DecodedRoot => last.res.kind # "Panic"

\* ------------------------------------------------------------------------
\* Fields whose user metadata may hold the reserved extension keys
\* ------------------------------------------------------------------------
Str_k == <<"k">>
Str_v == <<"v">>
Str_u == <<"u">>
Str_w == <<"w">>

\* Every map over the keys "k", ARROW:extension:name, ARROW:extension:metadata.
UserMetadatas ==
    {MapOf(entries) :
        entries \in SeqsUpTo({<<Str_k, Str_v>>, <<ExtensionNameKey, Str_u>>,
                              <<ExtensionMetadataKey, Str_w>>}, MaxEntries + 1)}

UserTypes ==
    {Atom("Int32"), Atom("Utf8"), Decimal(10, 2),
     List(Field(Str_item, Atom("Int32"), TRUE)),
     Dictionary("Int8", Atom("Utf8"), FALSE),
     Extension(Str_e, Atom("Int32"), None),
     Extension(Str_e, Atom("Utf8"), Some(Str_m))}

UserFields ==
    {with_metadata(Field(Str_xs, t, nl), md) :
        t \in UserTypes, nl \in BOOLEAN, md \in UserMetadatas}

ExportUser ==
    /\ last.op = "init"
    /\ \E field \in UserFields : ExportField(field)

NextUser == ExportUser \/ ToField

SpecUser == Init /\ [][NextUser]_vars

\* C27: for every Field whose DataType is not Extension,
\* to_field(ArrowSchema::new(field)) has a non-Extension DataType and a
\* metadata map equal to the field's, whatever keys the user metadata holds
\* (the two reserved ones included); and for an Extension field no user
\* metadata entry is dropped or overwritten by the injected reserved keys.
C27_UserMetadata ==
    (Exported /\ DecodedRoot) =>
        /\ IsOk(last.res)
        /\ source.field.data_type.tag # "Extension" =>
              /\ last.res.val.data_type.tag # "Extension"
              /\ last.res.val.metadata = source.field.metadata
        /\ source.field.data_type.tag = "Extension" =>
              /\ last.res.val.data_type = source.field.data_type
              /\ \A i \in 1..Len(source.field.metadata) :
                    EntryValue(last.res.val.metadata, source.field.metadata[i][1])
                        = Some(source.field.metadata[i][2])

\* ------------------------------------------------------------------------
\* ListScalar (src/src/scalar/list.rs): [values, is_valid], values the child
\* array as a sequence of integers; a ListArray is [offsets, values,
\* validity] with validity None or Some(bitmap).
\* ------------------------------------------------------------------------
\* ListScalar::new(ListScalarNew::Array(a)) and ::new(ListScalarNew::DataType(d)).
ListScalar_new(v) ==
    IF IsSome(v) THEN [values |-> Unwrap(v), is_valid |-> TRUE]
    ELSE [values |-> <<>>, is_valid |-> FALSE]

\* concatenate(&arrays): the arrays' values one after the other.
RECURSIVE concatenate(_)
concatenate(arrays) ==
    IF Len(arrays) = 0 THEN <<>> ELSE arrays[1] \o concatenate(Tail(arrays))

\* ListArray::from_data and ListArray::new_null.
ListArray_from_data(offsets, values, bitmap) ==
    [offsets |-> offsets, values |-> values, validity |-> bitmap]
ListArray_new_null(length) ==
    ListArray_from_data([i \in 1..(length + 1) |-> 0], <<>>,
                        Some([i \in 1..length |-> FALSE]))

\* Scalar::to_boxed_array(length): offset number i (from 0) is
\* i + values.len().
to_boxed_array(scalar, length) ==
    IF scalar.is_valid
    THEN LET offsets == [j \in 1..(length + 1) |-> (j - 1) + Len(scalar.values)]
             values == concatenate([j \in 1..length |-> scalar.values])
         IN  ListArray_from_data(offsets, values, None)
    ELSE ListArray_new_null(length)

\* ---- a scalar is made, then turned into arrays ----
MaxLength == 3
ChildValues == {1, 2, 3}

ScalarIdle ==
    UNCHANGED <<nodes, privs, node_freed, priv_freed, ub, root, released, stream, array,
                mutable, page>>

ScalarNew ==
    /\ last.op = "init"
    /\ \E v \in {None} \cup {Some(a) : a \in SeqsUpTo(ChildValues, MaxLen)} :
        source' = [kind |-> "scalar", scalar |-> ListScalar_new(v)]
    /\ last' = [op |-> "new"]
    /\ ScalarIdle

ToBoxedArray ==
    /\ source.kind = "scalar"
    /\ \E length \in 0..MaxLength :
        last' = [op |-> "to_boxed_array", length |-> length,
                 out |-> to_boxed_array(source.scalar, length)]
    /\ UNCHANGED source
    /\ ScalarIdle

NextScalar == ScalarNew \/ ToBoxedArray

SpecScalar == Init /\ [][NextScalar]_vars

\* Slot i (from 0) of a list array: the child values between its offsets.
ListSlot(a, i) == SubSeq(a.values, a.offsets[i + 1] + 1, a.offsets[i + 2])

\* C28: to_boxed_array(length) on a valid scalar with k values returns a list
\* array of `length` slots whose offsets are 0, k, 2k, ..., length*k (first
\* offset 0, last offset the number of concatenated child values), so every
\* slot equals the scalar's values; on an invalid scalar it returns `length`
\* null slots.
C28_ListOffsets ==
    (source.kind = "scalar" /\ last.op = "to_boxed_array") =>
        LET out == last.out
            k == Len(source.scalar.values)
        IN  /\ Len(out.offsets) = last.length + 1
            /\ IF source.scalar.is_valid
               THEN /\ \A i \in 0..last.length : out.offsets[i + 1] = i * k
                    /\ out.offsets[1] = 0
                    /\ out.offsets[last.length + 1] = Len(out.values)
                    /\ \A i \in 0..(last.length - 1) : ListSlot(out, i) = source.scalar.values
                    /\ out.validity = None
               ELSE /\ IsSome(out.validity)
                    /\ Len(Unwrap(out.validity)) = last.length
                    /\ \A i \in 1..last.length : ~Unwrap(out.validity)[i]

====
